---- MODULE Spec2Model ----
(***************************************************************************)
(* A model of the copilot core of Edwin-Analysis-Power: the schema-        *)
(* constrained parser (copilot/contracts.py), the filter engine, metric    *)
(* evaluator and plan executor (copilot/executor.py) and the confidence    *)
(* score (copilot/confidence.py).                                          *)
(*                                                                         *)
(* Python values are tagged records: None, str (a sequence of one-         *)
(* character strings), int, list and dict (a function from key strings to  *)
(* values).  A call either returns a value or raises; a raised exception   *)
(* is the value Raise(exc).                                                *)
(***************************************************************************)
EXTENDS Integers, Sequences, FiniteSets, TLC

VARIABLES
    raw,        \* the untrusted value handed to the parser
    columns,    \* the known-column list, or None
    text,       \* the model response text handed to _extract_json_object
    df,         \* the dataset: a sequence of rows
    spec,       \* the MetricSpec handed to the evaluator
    op,         \* the operation applied last ("init" before any)
    out         \* what that operation returned or raised

vars == <<raw, columns, text, df, spec, op, out>>

---------------------------------------------------------------------------
(* Python values *)

PNone == [t |-> "None"]
PStr(s) == [t |-> "str", s |-> s]
PInt(n) == [t |-> "int", n |-> n]
PList(xs) == [t |-> "list", items |-> xs]
PDict(f) == [t |-> "dict", f |-> f]
Raise(exc) == [t |-> "raise", exc |-> exc]
IsRaise(v) == v.t = "raise"

\* dict.get(key, default)
Get(d, key, default) == IF key \in DOMAIN d.f THEN d.f[key] ELSE default

\* The string literals of the source, as character sequences.
Lit == [
    null |-> <<"n", "u", "l", "l">>,
    true |-> <<"t", "r", "u", "e">>,
    false |-> <<"f", "a", "l", "s", "e">>,
    count |-> <<"c", "o", "u", "n", "t">>,
    sum |-> <<"s", "u", "m">>,
    mean |-> <<"m", "e", "a", "n">>,
    median |-> <<"m", "e", "d", "i", "a", "n">>,
    min |-> <<"m", "i", "n">>,
    max |-> <<"m", "a", "x">>,
    nunique |-> <<"n", "u", "n", "i", "q", "u", "e">>,
    ratio |-> <<"r", "a", "t", "i", "o">>,
    pct |-> <<"p", "c", "t">>,
    eq |-> <<"e", "q">>,
    neq |-> <<"n", "e", "q">>,
    gt |-> <<"g", "t">>,
    gte |-> <<"g", "t", "e">>,
    lt |-> <<"l", "t">>,
    lte |-> <<"l", "t", "e">>,
    in |-> <<"i", "n">>,
    contains |-> <<"c", "o", "n", "t", "a", "i", "n", "s">>,
    summary |-> <<"s", "u", "m", "m", "a", "r", "y">>,
    comparison |-> <<"c", "o", "m", "p", "a", "r", "i", "s", "o", "n">>,
    trend |-> <<"t", "r", "e", "n", "d">>,
    anomaly |-> <<"a", "n", "o", "m", "a", "l", "y">>,
    distribution |-> <<"d", "i", "s", "t", "r", "i", "b", "u", "t", "i", "o", "n">>,
    breakdown |-> <<"b", "r", "e", "a", "k", "d", "o", "w", "n">>,
    bar |-> <<"b", "a", "r">>,
    line |-> <<"l", "i", "n", "e">>,
    scatter |-> <<"s", "c", "a", "t", "t", "e", "r">>,
    table |-> <<"t", "a", "b", "l", "e">>,
    none |-> <<"n", "o", "n", "e">>,
    auto |-> <<"a", "u", "t", "o">>,
    number |-> <<"n", "u", "m", "b", "e", "r">>,
    currency |-> <<"c", "u", "r", "r", "e", "n", "c", "y">>,
    percent |-> <<"p", "e", "r", "c", "e", "n", "t">>,
    days |-> <<"d", "a", "y", "s">>,
    integer |-> <<"i", "n", "t", "e", "g", "e", "r">>,
    name |-> <<"n", "a", "m", "e">>,
    operation |-> <<"o", "p", "e", "r", "a", "t", "i", "o", "n">>,
    column |-> <<"c", "o", "l", "u", "m", "n">>,
    where |-> <<"w", "h", "e", "r", "e">>,
    numerator |-> <<"n", "u", "m", "e", "r", "a", "t", "o", "r">>,
    denominator |-> <<"d", "e", "n", "o", "m", "i", "n", "a", "t", "o", "r">>,
    format |-> <<"f", "o", "r", "m", "a", "t">>,
    help_text |-> <<"h", "e", "l", "p", "_", "t", "e", "x", "t">>,
    op |-> <<"o", "p">>,
    value |-> <<"v", "a", "l", "u", "e">>,
    question |-> <<"q", "u", "e", "s", "t", "i", "o", "n">>,
    intent |-> <<"i", "n", "t", "e", "n", "t">>,
    metrics |-> <<"m", "e", "t", "r", "i", "c", "s">>,
    dimensions |-> <<"d", "i", "m", "e", "n", "s", "i", "o", "n", "s">>,
    filters |-> <<"f", "i", "l", "t", "e", "r", "s">>,
    time_grain |-> <<"t", "i", "m", "e", "_", "g", "r", "a", "i", "n">>,
    chart_type |-> <<"c", "h", "a", "r", "t", "_", "t", "y", "p", "e">>,
    explanation_focus |-> <<"e", "x", "p", "l", "a", "n", "a", "t", "i", "o", "n", "_", "f", "o", "c", "u", "s">>,
    assumptions |-> <<"a", "s", "s", "u", "m", "p", "t", "i", "o", "n", "s">>,
    Metric |-> <<"M", "e", "t", "r", "i", "c">>,
    RecordCount |-> <<"R", "e", "c", "o", "r", "d", " ", "C", "o", "u", "n", "t">>,
    None |-> <<"N", "o", "n", "e">>,
    NA |-> <<"N", "/", "A">>,
    space_days |-> <<" ", "d", "a", "y", "s">>,
    metric |-> <<"m", "e", "t", "r", "i", "c">>,
    raw_value |-> <<"r", "a", "w", "_", "v", "a", "l", "u", "e">>,
    row_level |-> <<"(", "r", "o", "w", "-", "l", "e", "v", "e", "l", ")">>,
    Missing |-> <<"(", "M", "i", "s", "s", "i", "n", "g", ")">>,
    value_display |-> <<"v", "a", "l", "u", "e", "_", "d", "i", "s", "p", "l", "a", "y">>,
    DefaultHeadline |-> <<"A", "I", " ", "D", "e", "c", "i", "s", "i", "o", "n", " ", "C", "o", "p", "i", "l", "o", "t", " ", "S", "u", "m", "m", "a", "r", "y">>,
    x |-> <<"x">>,
    y |-> <<"y">>,
    type |-> <<"t", "y", "p", "e">>,
    High |-> <<"H", "i", "g", "h">>,
    Medium |-> <<"M", "e", "d", "i", "u", "m">>,
    Low |-> <<"L", "o", "w">>,
    NoRows |-> <<"N", "o", " ", "r", "o", "w", "s", " ", "a", "v", "a", "i", "l", "a", "b", "l", "e", " ", "a", "f", "t", "e", "r", " ", "f", "i", "l", "t", "e", "r", "i", "n", "g", ".">>,
    Insufficient |-> <<"I", "n", "s", "u", "f", "f", "i", "c", "i", "e", "n", "t", " ", "s", "i", "g", "n", "a", "l", " ", "t", "o", " ", "c", "o", "m", "p", "u", "t", "e", " ", "r", "o", "b", "u", "s", "t", " ", "m", "e", "t", "r", "i", "c", "s", " ", "f", "o", "r", " ", "t", "h", "i", "s", " ", "q", "u", "e", "s", "t", "i", "o", "n", ".">>
]

---------------------------------------------------------------------------
(* str methods *)

LowerLetters == <<"a", "b", "c", "d", "e", "f", "g", "h", "i", "j", "k", "l", "m",
                  "n", "o", "p", "q", "r", "s", "t", "u", "v", "w", "x", "y", "z">>
UpperLetters == <<"A", "B", "C", "D", "E", "F", "G", "H", "I", "J", "K", "L", "M",
                  "N", "O", "P", "Q", "R", "S", "T", "U", "V", "W", "X", "Y", "Z">>
Letters == {LowerLetters[i] : i \in DOMAIN LowerLetters}
               \cup {UpperLetters[i] : i \in DOMAIN UpperLetters}
Digits == {"0", "1", "2", "3", "4", "5", "6", "7", "8", "9"}
Whitespace == {" ", "\t", "\n"}

\* str.lower(), one character
LowerChar(c) ==
    IF \E i \in DOMAIN UpperLetters : UpperLetters[i] = c
    THEN LowerLetters[CHOOSE i \in DOMAIN UpperLetters : UpperLetters[i] = c]
    ELSE c

\* str.lower()
Lower(s) == [i \in DOMAIN s |-> LowerChar(s[i])]

\* str.strip()
Strip(s) ==
    LET keep == {i \in DOMAIN s : s[i] \notin Whitespace}
    IN IF keep = {} THEN <<>>
       ELSE SubSeq(s, CHOOSE i \in keep : \A j \in keep : i <= j,
                      CHOOSE i \in keep : \A j \in keep : j <= i)

\* s[:n]
Take(s, n) == IF Len(s) <= n THEN s ELSE SubSeq(s, 1, n)

\* the decimal digits of a natural number
RECURSIVE DigitsOf(_)
DigitsOf(n) ==
    LET d == <<"0", "1", "2", "3", "4", "5", "6", "7", "8", "9">>[(n % 10) + 1]
    IN IF n < 10 THEN <<d>> ELSE DigitsOf(n \div 10) \o <<d>>

\* str(v), for the values None, str and int; a list or dict renders with its
\* brackets, which is all the enum and emptiness tests after str() can see.
ToStr(v) ==
    CASE v.t = "str" -> v.s
      [] v.t = "None" -> Lit.None
      [] v.t = "int" -> IF v.n < 0 THEN <<"-">> \o DigitsOf(-v.n) ELSE DigitsOf(v.n)
      [] v.t = "list" -> <<"[", "]">>
      [] v.t = "dict" -> <<"{", "}">>

---------------------------------------------------------------------------
(* copilot/contracts.py *)

ALLOWED_OPERATIONS == {Lit.count, Lit.sum, Lit.mean, Lit.median, Lit.min, Lit.max,
                       Lit.nunique, Lit.ratio, Lit.pct}
ALLOWED_BASE_OPERATIONS == {Lit.count, Lit.sum, Lit.mean, Lit.median, Lit.min,
                            Lit.max, Lit.nunique}
ALLOWED_FILTER_OPS == {Lit.eq, Lit.neq, Lit.gt, Lit.gte, Lit.lt, Lit.lte, Lit.in,
                       Lit.contains}
ALLOWED_INTENTS == {Lit.summary, Lit.comparison, Lit.trend, Lit.anomaly,
                    Lit.distribution, Lit.breakdown}
ALLOWED_CHART_TYPES == {Lit.bar, Lit.line, Lit.scatter, Lit.table, Lit.none}
ALLOWED_FORMATS == {Lit.auto, Lit.number, Lit.currency, Lit.percent, Lit.days,
                    Lit.integer}

ValidationError == Raise("ValidationError")

\* The character class of _COLUMN_RE, [\w\s\-\(\)%./:], with \w widened to "_;".
ColumnCharsLoose == Letters \cup Digits \cup {"_", ";"} \cup Whitespace
                        \cup {"-", "(", ")", "%", ".", "/", ":"}

\* The character class of _COLUMN_RE: [\w\s\-\(\)%./:].  \w is a letter, a
\* digit or the underscore.
ColumnChars == Letters \cup Digits \cup {"_"} \cup Whitespace
                   \cup {"-", "(", ")", "%", ".", "/", ":"}

\* _COLUMN_RE.match(col): ^[...]+$ over a name that was stripped, so that the
\* "$" cannot match before a trailing newline.
COLUMN_RE_match(col) == col # <<>> /\ \A i \in DOMAIN col : col[i] \in ColumnChars

\* col in columns
InList(v, lst) == \E i \in DOMAIN lst.items : lst.items[i] = v

\* lines 89-93 without the known-column test
checked_column_no_membership(col, cols) ==
    IF col = <<>> THEN ValidationError
    ELSE IF ~COLUMN_RE_match(col) THEN ValidationError
    ELSE PStr(col)

\* _validate_column without the known-column test
validate_column_no_membership(column, cols) ==
    IF column.t # "str" THEN ValidationError
    ELSE checked_column_no_membership(Strip(column.s), cols)

\* lines 87-94, col being column.strip()
checked_column(col, cols) ==
    IF col = <<>> THEN ValidationError
    ELSE IF ~COLUMN_RE_match(col) THEN ValidationError
    ELSE IF cols # PNone /\ ~InList(PStr(col), cols) THEN ValidationError
    ELSE PStr(col)

_validate_column(column, cols) ==
    IF column.t # "str" THEN ValidationError
    ELSE checked_column(Strip(column.s), cols)

\* lines 107-111: the clause of a validated column, an op and a value, or the raise
normalized_clause(col, fop, value) ==
    IF IsRaise(col) THEN col
    ELSE IF fop \notin ALLOWED_FILTER_OPS THEN ValidationError
    ELSE PDict((Lit.column :> col) @@ (Lit.op :> PStr(fop)) @@ (Lit.value :> value))

\* One where item of _normalize_where's loop: the clause, or the raise.
normalize_item(item, cols) ==
    IF item.t # "dict" THEN ValidationError
    ELSE normalized_clause(_validate_column(Get(item, Lit.column, PNone), cols),
                           Lower(Strip(ToStr(Get(item, Lit.op, PStr(Lit.eq))))),
                           Get(item, Lit.value, PNone))

\* The loop of _normalize_where over the clauses its items give: the first
\* raise ends it, else the list of all the clauses.
normalize_loop(clauses) ==
    LET raised == {i \in DOMAIN clauses : IsRaise(clauses[i])}
    IN IF raised = {} THEN PList(clauses)
       ELSE clauses[CHOOSE i \in raised : \A j \in raised : i <= j]

_normalize_where(raw_where, cols) ==
    IF raw_where = PNone THEN PList(<<>>)
    ELSE IF raw_where.t # "list" THEN ValidationError
    ELSE normalize_loop([i \in DOMAIN raw_where.items |->
                            normalize_item(raw_where.items[i], cols)])

\* str(raw.get("operation", "count")).strip().lower()
operation_text(rawd) == Lower(Strip(ToStr(Get(rawd, Lit.operation, PStr(Lit.count)))))

\* lines 119-121 and 138-140 with the enum test dropped.
parse_operation_unchecked(operation, allowed) == PStr(operation)

\* lines 119-121 and 138-140: the operation of a metric or an operand, read as
\* str(raw.get("operation", "count")).strip().lower(), or the raise.
parse_operation(operation, allowed) ==
    IF operation \notin allowed THEN ValidationError ELSE PStr(operation)

\* lines 123-127: the operand of its parsed parts, or the first raise
operand_of(opn, parsed_col, where) ==
    IF IsRaise(opn) THEN opn
    ELSE IF IsRaise(parsed_col) THEN parsed_col
    ELSE IF IsRaise(where) THEN where
    ELSE PDict((Lit.operation :> opn) @@ (Lit.column :> parsed_col)
                 @@ (Lit.where :> where))

\* lines 124-125 and 142-143: a column that is not None is validated
parse_column(column, cols) ==
    IF column # PNone THEN _validate_column(column, cols) ELSE PNone

_parse_operand(rawo, cols) ==
    IF rawo.t # "dict" THEN ValidationError
    ELSE operand_of(parse_operation(operation_text(rawo), ALLOWED_BASE_OPERATIONS),
                    parse_column(Get(rawo, Lit.column, PNone), cols),
                    _normalize_where(Get(rawo, Lit.where, PList(<<>>)), cols))

NameMax == 64
HelpTextMax == 160

MetricSpec(name, operation, column, numerator, denominator, where, format, help_text) ==
    [t |-> "MetricSpec", name |-> name, operation |-> operation, column |-> column,
     numerator |-> numerator, denominator |-> denominator, where |-> where,
     format |-> format, help_text |-> help_text]

\* lines 149-150: the two operands, or the first raise
operands_of(numerator, denominator) ==
    IF IsRaise(numerator) THEN numerator
    ELSE IF IsRaise(denominator) THEN denominator
    ELSE [t |-> "operands", numerator |-> numerator, denominator |-> denominator]

\* lines 146-150 without the test of the operation: the operands are parsed
\* for every metric.
parse_operands_any_operation(rawd, operation, cols) ==
    operands_of(_parse_operand(Get(rawd, Lit.numerator, PNone), cols),
                _parse_operand(Get(rawd, Lit.denominator, PNone), cols))

\* lines 146-150: the two operands, or the raise.
parse_operands(rawd, operation, cols) ==
    IF operation \in {Lit.ratio, Lit.pct}
    THEN operands_of(_parse_operand(Get(rawd, Lit.numerator, PNone), cols),
                     _parse_operand(Get(rawd, Lit.denominator, PNone), cols))
    ELSE [t |-> "operands", numerator |-> PNone, denominator |-> PNone]

\* lines 152-154
parse_format(rawd) ==
    LET format_hint == Lower(Strip(ToStr(Get(rawd, Lit.format, PStr(Lit.auto)))))
    IN IF format_hint \notin ALLOWED_FORMATS THEN Lit.auto ELSE format_hint

\* lines 134-167: the MetricSpec of its parsed parts, or the first raise
metric_of(name, operation, parsed_column, where, operands, format, help_text) ==
    IF name = <<>> THEN ValidationError
    ELSE IF IsRaise(operation) THEN operation
    ELSE IF IsRaise(parsed_column) THEN parsed_column
    ELSE IF IsRaise(where) THEN where
    ELSE IF IsRaise(operands) THEN operands
    ELSE MetricSpec(PStr(name), operation, parsed_column, operands.numerator,
                    operands.denominator, where, PStr(format), PStr(help_text))

parse_metric_spec(rawv, cols) ==
    IF rawv.t # "dict" THEN ValidationError
    ELSE metric_of(Take(Strip(ToStr(Get(rawv, Lit.name, PStr(Lit.Metric)))), NameMax),
                   parse_operation(operation_text(rawv), ALLOWED_OPERATIONS),
                   parse_column(Get(rawv, Lit.column, PNone), cols),
                   _normalize_where(Get(rawv, Lit.where, PList(<<>>)), cols),
                   parse_operands(rawv, operation_text(rawv), cols),
                   parse_format(rawv),
                   Take(Strip(ToStr(Get(rawv, Lit.help_text, PStr(<<>>)))), HelpTextMax))

\* str.upper()
Upper(s) ==
    [i \in DOMAIN s |->
        IF \E j \in DOMAIN LowerLetters : LowerLetters[j] = s[i]
        THEN UpperLetters[CHOOSE j \in DOMAIN LowerLetters : LowerLetters[j] = s[i]]
        ELSE s[i]]

QuestionMax == 500
MetricsCap == 6
DimensionsCap == 2
TimeGrainMax == 4
FocusMax == 120
AssumptionsCap == 3
AssumptionMax == 120

\* MetricSpec(name="Record Count", operation="count", column=None)
RecordCountMetric ==
    MetricSpec(PStr(Lit.RecordCount), PStr(Lit.count), PNone, PNone, PNone,
               PList(<<>>), PStr(Lit.auto), PStr(<<>>))

NotRaised(v) == ~IsRaise(v)

\* lines 190-191: the metrics that parsed, or the Record Count fallback
metrics_or_fallback(parsed) ==
    IF SelectSeq(parsed, NotRaised) = <<>> THEN <<RecordCountMetric>>
    ELSE SelectSeq(parsed, NotRaised)

\* lines 183-191 with the slice raw_metrics[:6] dropped.
parse_metrics_uncapped(raw_metrics, cols) ==
    metrics_or_fallback([i \in DOMAIN raw_metrics |->
                            parse_metric_spec(raw_metrics[i], cols)])

\* lines 183-191: the metrics of the plan
parse_metrics(raw_metrics, cols) ==
    metrics_or_fallback([i \in DOMAIN Take(raw_metrics, MetricsCap) |->
                            parse_metric_spec(raw_metrics[i], cols)])

\* lines 193-200: the dimensions of the plan
parse_dimensions(raw_dimensions, cols) ==
    IF raw_dimensions.t # "list" THEN <<>>
    ELSE LET tried == Take(raw_dimensions.items, DimensionsCap)
             parsed == [i \in DOMAIN tried |-> _validate_column(tried[i], cols)]
         IN SelectSeq(parsed, NotRaised)

\* lines 220-223: the assumptions of the plan
parse_assumptions(raw_assumptions) ==
    IF raw_assumptions.t # "list" THEN <<>>
    ELSE LET tried == Take(raw_assumptions.items, AssumptionsCap)
             stripped == [i \in DOMAIN tried |-> Strip(ToStr(tried[i]))]
             kept == SelectSeq(stripped, LAMBDA a : a # <<>>)
         IN [i \in DOMAIN kept |-> PStr(Take(kept[i], AssumptionMax))]

CopilotQueryPlan(question, intent, metrics, dimensions, filters, time_grain, chart_type, explanation_focus, assumptions, raw_plan) ==
    [t |-> "CopilotQueryPlan", question |-> question, intent |-> intent,
     metrics |-> metrics, dimensions |-> dimensions, filters |-> filters,
     time_grain |-> time_grain, chart_type |-> chart_type,
     explanation_focus |-> explanation_focus, assumptions |-> assumptions,
     raw_plan |-> raw_plan]

parse_query_plan(payload, cols) ==
    IF payload.t # "dict" THEN ValidationError
    ELSE
    LET question == Take(Strip(ToStr(Get(payload, Lit.question, PStr(<<>>)))), QuestionMax)
        rawintent == Lower(Strip(ToStr(Get(payload, Lit.intent, PStr(Lit.summary)))))
        intent == IF rawintent \notin ALLOWED_INTENTS THEN Lit.summary ELSE rawintent
        raw_metrics == Get(payload, Lit.metrics, PList(<<>>))
        dimensions == parse_dimensions(Get(payload, Lit.dimensions, PList(<<>>)), cols)
        filters == _normalize_where(Get(payload, Lit.filters, PList(<<>>)), cols)
        rawgrain == Get(payload, Lit.time_grain, PNone)
        time_grain == IF rawgrain.t = "str"
                      THEN PStr(Take(Upper(Strip(rawgrain.s)), TimeGrainMax))
                      ELSE PNone
        rawchart == Lower(Strip(ToStr(Get(payload, Lit.chart_type, PStr(Lit.table)))))
        chart_type == IF rawchart \notin ALLOWED_CHART_TYPES THEN Lit.table ELSE rawchart
        rawfocus == Get(payload, Lit.explanation_focus, PNone)
        explanation_focus == IF rawfocus.t = "str"
                             THEN PStr(Take(Strip(rawfocus.s), FocusMax))
                             ELSE PNone
        assumptions == parse_assumptions(Get(payload, Lit.assumptions, PList(<<>>)))
    IN IF raw_metrics.t # "list" THEN ValidationError
       ELSE IF IsRaise(filters) THEN filters
       ELSE CopilotQueryPlan(PStr(question), PStr(intent),
                             PList(parse_metrics(raw_metrics.items, cols)),
                             PList(dimensions), filters, time_grain, PStr(chart_type),
                             explanation_focus, PList(assumptions), payload)

---------------------------------------------------------------------------
(* Numbers.  A Python float is NaN or a rational n/d in lowest terms with    *)
(* d > 0; the rounding of binary floating point is not modelled.             *)

NaN == [t |-> "nan"]

Abs(n) == IF n < 0 THEN -n ELSE n

RECURSIVE Gcd(_, _)
Gcd(a, b) == IF b = 0 THEN a ELSE Gcd(b, a % b)

\* the float n/d, d # 0
Float(n, d) ==
    LET g == Gcd(Abs(n), Abs(d))
        sign == IF d < 0 THEN -1 ELSE 1
    IN [t |-> "float", n |-> (sign * n) \div g, d |-> (sign * d) \div g]

IsZero(v) == v.t = "float" /\ v.n = 0
IsNaN(v) == v.t = "nan"

\* a / b on floats, b not zero; NaN if either is NaN
Divide(a, b) ==
    IF IsNaN(a) \/ IsNaN(b) THEN NaN ELSE Float(a.n * b.d, a.d * b.n)

\* a * k on a float, for an integer k
Times(a, k) == IF IsNaN(a) THEN NaN ELSE Float(a.n * k, a.d)

\* a + b, a * b, min(a, b), max(a, b) on floats that are not NaN
Plus(a, b) == Float(a.n * b.d + b.n * a.d, a.d * b.d)
Product(a, b) == Float(a.n * b.n, a.d * b.d)
Least(a, b) == IF a.n * b.d <= b.n * a.d THEN a ELSE b
Greatest(a, b) == IF a.n * b.d >= b.n * a.d THEN a ELSE b

RECURSIVE Pow10(_)
Pow10(k) == IF k = 0 THEN 1 ELSE 10 * Pow10(k - 1)

---------------------------------------------------------------------------
(* pandas.  A DataFrame is its column names, the dtype of each column and   *)
(* its rows; a cell is None (the null NaN/None), an int or a str.           *)

DataFrame(cols, dtypes, rows) ==
    [t |-> "DataFrame", columns |-> cols, dtypes |-> dtypes, rows |-> rows]

\* pd.DataFrame(): no columns, no rows
NoDataFrame == DataFrame(<<>>, <<>>, <<>>)

Range(f) == {f[i] : i \in DOMAIN f}

\* the value of a string of decimal digits
RECURSIVE DigitsValue(_)
DigitsValue(s) ==
    IF s = <<>> THEN 0
    ELSE 10 * DigitsValue(SubSeq(s, 1, Len(s) - 1))
             + (CHOOSE k \in 0..9 : DigitsOf(k) = <<s[Len(s)]>>)

\* pd.to_numeric(..., errors="coerce") of one value: a float or NaN.  The
\* strings of the model are digit strings, which parse, or hold a character
\* that no number has, which coerce to NaN.
to_numeric(v) ==
    CASE v.t = "int" -> Float(v.n, 1)
      [] v.t = "str" -> IF v.s # <<>> /\ \A i \in DOMAIN v.s : v.s[i] \in Digits
                        THEN Float(DigitsValue(v.s), 1)
                        ELSE NaN
      [] OTHER -> NaN

\* a < b that holds when a side is NaN
FloatLessOrNaN(a, b) == IsNaN(a) \/ IsNaN(b) \/ a.n * b.d < b.n * a.d

\* a < b on floats; False if either is NaN
FloatLess(a, b) == ~IsNaN(a) /\ ~IsNaN(b) /\ a.n * b.d < b.n * a.d
FloatEq(a, b) == ~IsNaN(a) /\ ~IsNaN(b) /\ a.n * b.d = b.n * a.d

\* cell == v for one cell: a null equals nothing, values of different types
\* are unequal
CellEq(cell, v) == cell # PNone /\ v # PNone /\ cell = v

\* str(cell) after fillna("").astype(str): a number of a float64 column (a
\* numeric column that holds a null) prints with ".0"
CellStr(cell, dtype) ==
    CASE cell.t = "None" -> <<>>
      [] cell.t = "str" -> cell.s
      [] cell.t = "int" -> IF dtype = "float64" THEN ToStr(cell) \o <<".", "0">>
                           ELSE ToStr(cell)

---------------------------------------------------------------------------
(* re, for patterns of literal characters and the metacharacters . * ( )    *)

\* re.compile(pattern) succeeds: the parentheses balance and every * follows
\* something to repeat that is not itself a repeat
RECURSIVE re_compiles_from(_, _, _, _)
re_compiles_from(pattern, i, depth, repeatable) ==
    IF i > Len(pattern) THEN depth = 0
    ELSE CASE pattern[i] = "(" -> re_compiles_from(pattern, i + 1, depth + 1, FALSE)
           [] pattern[i] = ")" ->
                  depth > 0 /\ re_compiles_from(pattern, i + 1, depth - 1, TRUE)
           [] pattern[i] = "*" ->
                  repeatable /\ re_compiles_from(pattern, i + 1, depth, FALSE)
           [] OTHER -> re_compiles_from(pattern, i + 1, depth, TRUE)

re_compiles(pattern) == re_compiles_from(pattern, 1, 0, FALSE)

\* the index of the ")" that closes the "(" opened before position i
RECURSIVE CloseIndex(_, _, _)
CloseIndex(pattern, i, depth) ==
    CASE pattern[i] = ")" /\ depth = 1 -> i
      [] pattern[i] = ")" /\ depth > 1 -> CloseIndex(pattern, i + 1, depth - 1)
      [] pattern[i] = "(" -> CloseIndex(pattern, i + 1, depth + 1)
      [] OTHER -> CloseIndex(pattern, i + 1, depth)

\* The positions of string s at which a match of the pattern can end, having
\* begun at a position of froms.
RECURSIVE MatchEnds(_, _, _)
RECURSIVE AtomEnds(_, _, _)
RECURSIVE StarEnds(_, _, _)

AtomEnds(atom, s, froms) ==
    IF atom[1] = "(" THEN MatchEnds(SubSeq(atom, 2, Len(atom) - 1), s, froms)
    ELSE {i + 1 : i \in {j \in froms : /\ j <= Len(s)
                                       /\ IF atom[1] = "." THEN s[j] # "\n"
                                          ELSE s[j] = atom[1]}}

StarEnds(atom, s, froms) ==
    LET more == froms \cup AtomEnds(atom, s, froms)
    IN IF more = froms THEN froms ELSE StarEnds(atom, s, more)

MatchEnds(pattern, s, froms) ==
    IF pattern = <<>> THEN froms
    ELSE LET alen == IF pattern[1] = "(" THEN CloseIndex(pattern, 2, 1) ELSE 1
             atom == SubSeq(pattern, 1, alen)
             star == alen < Len(pattern) /\ pattern[alen + 1] = "*"
             rest == SubSeq(pattern, alen + (IF star THEN 2 ELSE 1), Len(pattern))
         IN MatchEnds(rest, s, IF star THEN StarEnds(atom, s, froms)
                               ELSE AtomEnds(atom, s, froms))

\* re.compile(pattern, re.IGNORECASE).search(s) is not None
re_search_ignorecase(pattern, s) ==
    MatchEnds(Lower(pattern), Lower(s), 1..(Len(s) + 1)) # {}

---------------------------------------------------------------------------
(* copilot/executor.py *)

\* out[mask]: the rows the mask holds of, in order
RECURSIVE SelectRows(_, _, _)
SelectRows(rows, mask, i) ==
    IF i > Len(rows) THEN <<>>
    ELSE (IF mask[i] THEN <<rows[i]>> ELSE <<>>) \o SelectRows(rows, mask, i + 1)

\* a boolean Series
Mask(values) == [t |-> "Series", values |-> values]

\* series == val (lines 26-29): a list is compared element by element and must
\* have the length of the series; the mask, or the raise
series_eq(series, val) ==
    IF val.t = "list"
    THEN IF Len(val.items) # Len(series) THEN Raise("ValueError")
         ELSE Mask([i \in DOMAIN series |-> CellEq(series[i], val.items[i])])
    ELSE Mask([i \in DOMAIN series |-> CellEq(series[i], val)])

\* lines 41-43: the needle is a regular expression, searched ignoring case;
\* the mask, or the raise of a needle that does not compile
contains_mask(series, dtype, val) ==
    LET needle == IF val = PNone THEN <<>> ELSE ToStr(val)
    IN IF ~re_compiles(needle) THEN Raise("re.error")
       ELSE Mask([i \in DOMAIN series |->
                     re_search_ignorecase(needle, CellStr(series[i], dtype))])

\* lines 22-45: the mask of one clause over the series of its column
clause_mask(series, dtype, flt) ==
    LET fop == Get(flt, Lit.op, PStr(Lit.eq))
        val == Get(flt, Lit.value, PNone)
        num == [i \in DOMAIN series |-> to_numeric(series[i])]
        bound == to_numeric(val)
    IN CASE fop = PStr(Lit.eq) -> series_eq(series, val)
         [] fop = PStr(Lit.neq) ->
                LET eq == series_eq(series, val)
                IN IF IsRaise(eq) THEN eq
                   ELSE Mask([i \in DOMAIN series |-> ~eq.values[i]])
         [] fop = PStr(Lit.gt) ->
                Mask([i \in DOMAIN series |-> FloatLess(bound, num[i])])
         [] fop = PStr(Lit.gte) ->
                Mask([i \in DOMAIN series |->
                         FloatLess(bound, num[i]) \/ FloatEq(bound, num[i])])
         [] fop = PStr(Lit.lt) ->
                Mask([i \in DOMAIN series |-> FloatLess(num[i], bound)])
         [] fop = PStr(Lit.lte) ->
                Mask([i \in DOMAIN series |->
                         FloatLess(num[i], bound) \/ FloatEq(num[i], bound)])
         [] fop = PStr(Lit.in) ->
                LET options == IF val.t = "list" THEN val.items ELSE <<val>>
                IN Mask([i \in DOMAIN series |->
                            \E k \in DOMAIN options : CellEq(series[i], options[k])])
         [] fop = PStr(Lit.contains) -> contains_mask(series, dtype, val)
         [] OTHER -> Mask([i \in DOMAIN series |-> TRUE])

RECURSIVE where_loop(_, _, _)

\* line 47 and the clauses after clause i, given the mask of clause i or its
\* raise
keep_masked(frame, mask, where, i) ==
    IF IsRaise(mask) THEN mask
    ELSE where_loop([frame EXCEPT !.rows = SelectRows(@, mask.values, 1)], where, i + 1)

\* the loop of lines 18-47 from clause i on
where_loop(frame, where, i) ==
    IF i > Len(where) THEN frame
    ELSE LET col == Get(where[i], Lit.column, PNone)
         IN IF col.t # "str" \/ col.s \notin Range(frame.columns)
            THEN where_loop(frame, where, i + 1)
            ELSE keep_masked(frame,
                             clause_mask([r \in DOMAIN frame.rows |-> frame.rows[r][col.s]],
                                         frame.dtypes[col.s], where[i]),
                             where, i)

apply_where_filters(frame, where) ==
    IF where.items = <<>> THEN frame ELSE where_loop(frame, where.items, 1)

\* the sequence without its None and without what coerces to NaN, as floats
RECURSIVE NumericValues(_)
NumericValues(series) ==
    IF series = <<>> THEN <<>>
    ELSE LET v == to_numeric(Head(series))
         IN (IF IsNaN(v) THEN <<>> ELSE <<v>>) \o NumericValues(Tail(series))

RECURSIVE SumOf(_)
SumOf(values) ==
    IF values = <<>> THEN Float(0, 1)
    ELSE LET rest == SumOf(Tail(values))
             v == Head(values)
         IN Float(v.n * rest.d + rest.n * v.d, v.d * rest.d)

\* the k-th smallest of the values, k from 1
KthSmallest(values, k) ==
    LET v == CHOOSE i \in DOMAIN values :
                 /\ Cardinality({j \in DOMAIN values : FloatLess(values[j], values[i])}) < k
                 /\ Cardinality({j \in DOMAIN values : ~FloatLess(values[i], values[j])}) >= k
    IN values[v]

\* lines 62-71: the aggregate of the numeric values; pandas gives 0.0 for the
\* sum and NaN for the mean, median, min and max of no values
aggregate(operation, values) ==
    CASE operation = Lit.sum -> SumOf(values)
      [] values = <<>> -> NaN
      [] operation = Lit.mean -> Divide(SumOf(values), Float(Len(values), 1))
      [] operation = Lit.median ->
             LET n == Len(values)
             IN IF n % 2 = 1 THEN KthSmallest(values, (n + 1) \div 2)
                ELSE Divide(SumOf(<<KthSmallest(values, n \div 2),
                                    KthSmallest(values, n \div 2 + 1)>>), Float(2, 1))
      [] operation = Lit.min -> KthSmallest(values, 1)
      [] operation = Lit.max -> KthSmallest(values, Len(values))

_run_base_operation(frame, operation, column) ==
    LET known == column.t = "str" /\ column.s # <<>> /\ column.s \in Range(frame.columns)
        series == [r \in DOMAIN frame.rows |-> frame.rows[r][column.s]]
        notna == SelectSeq(series, LAMBDA c : c # PNone)
    IN IF operation = Lit.count
       THEN IF known THEN Float(Len(notna), 1) ELSE Float(Len(frame.rows), 1)
       ELSE IF ~known THEN NaN
       ELSE IF operation \in {Lit.sum, Lit.mean, Lit.median, Lit.min, Lit.max}
            THEN aggregate(operation, NumericValues(notna))
       ELSE IF operation = Lit.nunique THEN Float(Cardinality(Range(notna)), 1)
       ELSE NaN

\* line 81, given what apply_where_filters returned or raised
operand_value(scoped, operand) ==
    IF IsRaise(scoped) THEN scoped
    ELSE _run_base_operation(scoped, ToStr(Get(operand, Lit.operation, PStr(Lit.count))),
                             Get(operand, Lit.column, PNone))

_evaluate_operand(frame, operand) ==
    IF operand = PNone \/ (operand.t = "dict" /\ DOMAIN operand.f = {}) THEN NaN
    ELSE operand_value(apply_where_filters(frame, Get(operand, Lit.where, PList(<<>>))),
                       operand)

\* lines 93-96: the guarded division
zero_guard(num, den, operation) ==
    IF IsZero(den) \/ IsNaN(den) THEN NaN
    ELSE LET ratio == Divide(num, den)
         IN IF operation = Lit.pct THEN Times(ratio, 100) ELSE ratio

\* lines 91-96, given what the operands returned or raised
ratio_value(num, den, operation) ==
    IF IsRaise(num) THEN num
    ELSE IF IsRaise(den) THEN den
    ELSE zero_guard(num, den, operation)

\* lines 87-98, given what apply_where_filters returned or raised
metric_value(scoped, m) ==
    IF IsRaise(scoped) THEN scoped
    ELSE IF m.operation.s \in {Lit.count, Lit.sum, Lit.mean, Lit.median, Lit.min,
                               Lit.max, Lit.nunique}
    THEN _run_base_operation(scoped, m.operation.s, m.column)
    ELSE IF m.operation.s \in {Lit.ratio, Lit.pct}
    THEN ratio_value(_evaluate_operand(scoped, m.numerator),
                     _evaluate_operand(scoped, m.denominator), m.operation.s)
    ELSE NaN

evaluate_metric(frame, m) == metric_value(apply_where_filters(frame, m.where), m)

\* the integer nearest to n/d, a tie going to the even one as Python's round
\* and format do for a tie that the float holds exactly; n >= 0, d > 0
RoundHalfEven(n, d) ==
    IF 2 * (n % d) > d \/ (2 * (n % d) = d /\ (n \div d) % 2 = 1)
    THEN (n \div d) + 1
    ELSE n \div d

\* the "," option of a format spec: the digits in groups of three
RECURSIVE Grouped(_)
Grouped(digits) ==
    IF Len(digits) <= 3 THEN digits
    ELSE Grouped(SubSeq(digits, 1, Len(digits) - 3))
            \o <<",">> \o SubSeq(digits, Len(digits) - 2, Len(digits))

RECURSIVE ZeroPad(_, _)
ZeroPad(digits, k) == IF Len(digits) >= k THEN digits ELSE ZeroPad(<<"0">> \o digits, k)

\* the digits of scaled / 10^k with k decimals
Decimal(scaled, k) ==
    Grouped(DigitsOf(scaled \div Pow10(k)))
        \o (IF k = 0 THEN <<>> ELSE <<".">> \o ZeroPad(DigitsOf(scaled % Pow10(k)), k))

\* f"{value:,.kf}" of a float that is not NaN
Fixed(value, k) ==
    (IF value.n < 0 THEN <<"-">> ELSE <<>>)
        \o Decimal(RoundHalfEven(Abs(value.n) * Pow10(k), value.d), k)

\* f"{int(round(value)):,}" (line 106): an int has no negative zero
IntegerText(rounded, negative) ==
    (IF negative /\ rounded > 0 THEN <<"-">> ELSE <<>>) \o Grouped(DigitsOf(rounded))

\* abs(value) >= k
AbsAtLeast(value, k) == Abs(value.n) >= k * value.d

\* lines 105-118: the text of a value that is a number
formatted(value, fmt) ==
    IF fmt = PStr(Lit.integer)
    THEN IntegerText(RoundHalfEven(Abs(value.n), value.d), value.n < 0)
    ELSE IF fmt = PStr(Lit.currency) THEN <<"$">> \o Fixed(value, 2)
    ELSE IF fmt = PStr(Lit.percent) THEN Fixed(value, 2) \o <<"%">>
    ELSE IF fmt = PStr(Lit.days) THEN Fixed(value, 1) \o Lit.space_days
    ELSE IF AbsAtLeast(value, 100) THEN Fixed(value, 0)
    ELSE IF AbsAtLeast(value, 1) THEN Fixed(value, 2)
    ELSE Fixed(value, 4)

\* format_metric_value with the NaN test made only when no explicit format
\* applies: f"{nan:,.2f}" is "nan"
format_metric_value_na_only_auto(value, fmt) ==
    IF value = PNone THEN PStr(Lit.NA)
    ELSE IF IsNaN(value)
    THEN IF fmt \in {PStr(Lit.integer), PStr(Lit.currency), PStr(Lit.percent), PStr(Lit.days)}
         THEN PStr(<<"n", "a", "n">>)
         ELSE PStr(Lit.NA)
    ELSE PStr(formatted(value, fmt))

format_metric_value(value, fmt) ==
    IF value = PNone \/ IsNaN(value) THEN PStr(Lit.NA) ELSE PStr(formatted(value, fmt))

PTuple(xs) == [t |-> "tuple", items |-> xs]

KpiNameMax == 24
DefaultMaxItems == 5

\* the format of a metric with no override for pct
display_format_kept(m) == m.format

\* lines 125-127 and 136-138: the format a metric is displayed with
display_format(m) ==
    IF m.operation = PStr(Lit.pct) /\ m.format = PStr(Lit.auto) THEN PStr(Lit.percent)
    ELSE m.format

\* the result of a loop over the specs: the first raise of evaluate_metric
\* ends it, else the list of the rows
rows_or_raise(rows) ==
    LET raised == {i \in DOMAIN rows : IsRaise(rows[i])}
    IN IF raised = {} THEN PList(rows)
       ELSE rows[CHOOSE i \in raised : \A j \in raised : i <= j]

\* line 128, given what evaluate_metric returned or raised
kpi_row(m, raw_value) ==
    IF IsRaise(raw_value) THEN raw_value
    ELSE PTuple(<<PStr(Take(m.name.s, KpiNameMax)),
                  format_metric_value(raw_value, display_format(m)),
                  m.help_text>>)

evaluate_kpi_specs(frame, specs, max_items) ==
    rows_or_raise([i \in DOMAIN Take(specs, max_items) |->
                      kpi_row(specs[i], evaluate_metric(frame, specs[i]))])

\* lines 139-147, given what evaluate_metric returned or raised
evidence_row(m, raw_value) ==
    IF IsRaise(raw_value) THEN raw_value
    ELSE PDict((Lit.metric :> m.name) @@ (Lit.operation :> m.operation)
                 @@ (Lit.value :> format_metric_value(raw_value, display_format(m)))
                 @@ (Lit.raw_value :> raw_value)
                 @@ (Lit.column :> IF m.column = PNone \/ m.column = PStr(<<>>)
                                   THEN PStr(Lit.row_level) ELSE m.column))

\* line 148: pd.DataFrame(rows)
evidence_frame(rows) ==
    IF IsRaise(rows) THEN rows
    ELSE IF rows.items = <<>> THEN NoDataFrame
    ELSE DataFrame(<<Lit.metric, Lit.operation, Lit.value, Lit.raw_value, Lit.column>>,
                   [c \in {Lit.metric, Lit.operation, Lit.value, Lit.raw_value, Lit.column}
                       |-> IF c = Lit.raw_value THEN "float64" ELSE "object"],
                   [i \in DOMAIN rows.items |-> rows.items[i].f])

build_metric_evidence(frame, specs) ==
    evidence_frame(rows_or_raise([i \in DOMAIN specs |->
                                     evidence_row(specs[i], evaluate_metric(frame, specs[i]))]))

\* line 156: the label of each row, base[dimension].fillna("(Missing)").astype(str)
labels_of(frame, dimension) ==
    [i \in DOMAIN frame.rows |->
        IF frame.rows[i][dimension] = PNone THEN Lit.Missing
        ELSE CellStr(frame.rows[i][dimension], frame.dtypes[dimension])]

\* line 157: labels.value_counts().head(limit).index.tolist().  value_counts
\* orders the labels by falling count and leaves the order of equal counts to
\* the sort; each order it can give, cut to limit labels
top_label_lists(labels, limit) ==
    LET distinct == Range(labels)
        count == [l \in distinct |-> Cardinality({i \in DOMAIN labels : labels[i] = l})]
        orders == {p \in [1..Cardinality(distinct) -> distinct] :
                      /\ \A i, j \in DOMAIN p : i # j => p[i] # p[j]
                      /\ \A i, j \in DOMAIN p : i < j => count[p[i]] >= count[p[j]]}
    IN {Take(p, limit) : p \in orders}

\* lines 161-163, given what evaluate_metric returned or raised
dimension_row(dimension, label, m, value) ==
    IF IsRaise(value) THEN value
    ELSE PDict((Lit.value :> value) @@ (Lit.metric :> m.name) @@ (dimension :> PStr(label)))

\* line 161: base[labels == label]
subset_of(frame, labels, label) ==
    [frame EXCEPT !.rows = SelectRows(@, [i \in DOMAIN labels |-> labels[i] = label], 1)]

\* lines 160-163: the rows of the labels, or the first raise
dimension_rows(frame, labels, dimension, m, top_labels) ==
    rows_or_raise([k \in DOMAIN top_labels |->
        dimension_row(dimension, top_labels[k], m,
                      evaluate_metric(subset_of(frame, labels, top_labels[k]), m))])

\* line 165: out = pd.DataFrame(rows)
dimension_frame(dimension, rows) ==
    DataFrame(<<dimension, Lit.metric, Lit.value>>,
              [c \in {dimension, Lit.metric, Lit.value}
                  |-> IF c = Lit.value THEN "float64" ELSE "object"],
              [i \in DOMAIN rows |-> rows[i].f])

\* line 168: the frame that out is after out["value_display"] = ...
with_value_display(frame) ==
    [frame EXCEPT
        !.columns = Append(@, Lit.value_display),
        !.dtypes = @ @@ (Lit.value_display :> "object"),
        !.rows = [i \in DOMAIN @ |->
                     @[i] @@ (Lit.value_display :>
                                 format_metric_value(@[i][Lit.value], PStr(Lit.auto)))]]

\* line 169: out.sort_values("value", ascending=False) puts the rows by falling
\* value with NaN last and leaves the order of equal values to the sort; each
\* frame it can give
sorted_frames(frame) ==
    LET before(a, b) == IsNaN(b) \/ (~IsNaN(a) /\ ~FloatLess(a, b))
        orders == {p \in [DOMAIN frame.rows -> DOMAIN frame.rows] :
                      /\ \A i, j \in DOMAIN p : i # j => p[i] # p[j]
                      /\ \A i, j \in DOMAIN p :
                            i < j => before(frame.rows[p[i]][Lit.value],
                                            frame.rows[p[j]][Lit.value])}
    IN {[frame EXCEPT !.rows = [i \in DOMAIN @ |-> @[p[i]]]] : p \in orders}

---------------------------------------------------------------------------
(* copilot/confidence.py *)

\* f"{value:.1f}" of a float that is not NaN
OneDecimal(value) ==
    LET scaled == RoundHalfEven(Abs(value.n) * 10, value.d)
    IN (IF value.n < 0 THEN <<"-">> ELSE <<>>)
          \o DigitsOf(scaled \div 10) \o <<".">> \o DigitsOf(scaled % 10)

\* lines 17-32: the score, r_squared being None
confidence_score(coverage, metrics_computed, missingness_pct, plan_valid) ==
    LET metric_factor == Least(Float(1, 1), Float(metrics_computed, 3))
        missing_penalty ==
            Least(Float(2, 5),
                  Product(Greatest(Float(0, 1), Product(missingness_pct, Float(1, 100))),
                          Float(2, 5)))
        score == Plus(Plus(Plus(Plus(Product(Float(1, 2), coverage),
                                     Product(Float(1, 4), metric_factor)),
                                Product(Float(3, 20),
                                        IF plan_valid THEN Float(1, 1) ELSE Float(2, 5))),
                           Float(1, 20)),
                      Float(-missing_penalty.n, missing_penalty.d))
    IN Greatest(Float(0, 1), Least(Float(1, 1), score))

\* lines 34-39
confidence_label(score) ==
    IF ~FloatLess(score, Float(3, 4)) THEN Lit.High
    ELSE IF ~FloatLess(score, Float(1, 2)) THEN Lit.Medium
    ELSE Lit.Low

\* lines 41-45
rationale(coverage, metrics_computed, missingness_pct) ==
    <<"C", "o", "v", "e", "r", "a", "g", "e", " ">> \o OneDecimal(Product(coverage, Float(100, 1)))
        \o <<"%", " ", "o", "f", " ", "f", "i", "l", "t", "e", "r", "e", "d", " ", "r", "o", "w", "s", ",", " ">>
        \o DigitsOf(metrics_computed)
        \o <<" ", "v", "a", "l", "i", "d", "a", "t", "e", "d", " ", "m", "e", "t", "r", "i", "c", "(", "s", ")", ",", " ", "m", "i", "s", "s", "i", "n", "g", "n", "e", "s", "s", " ", "i", "m", "p", "a", "c", "t", " ">>
        \o OneDecimal(missingness_pct) \o <<"%", ".">>

\* lines 17-46, given the coverage
confidence_of(coverage, metrics_computed, missingness_pct, plan_valid) ==
    PTuple(<<PStr(confidence_label(confidence_score(coverage, metrics_computed,
                                                     missingness_pct, plan_valid))),
             confidence_score(coverage, metrics_computed, missingness_pct, plan_valid),
             PStr(rationale(coverage, metrics_computed, missingness_pct))>>)

compute_confidence(rows_used, total_rows, metrics_computed, missingness_pct, plan_valid) ==
    IF total_rows <= 0 THEN PTuple(<<PStr(Lit.Low), Float(0, 1), PStr(Lit.NoRows)>>)
    ELSE confidence_of(Least(Float(1, 1), Float(rows_used, total_rows)),
                       metrics_computed, missingness_pct, plan_valid)

---------------------------------------------------------------------------
(* copilot/executor.py, the DataFrame objects.  Python hands a DataFrame    *)
(* over by reference: objs is the sequence of the DataFrame objects that     *)
(* exist, a reference is an index into it, and a call gives the objects      *)
(* after it with what it returned or raised.                                 *)

Result(objs, value) == [t |-> "return", objs |-> objs, value |-> value]
Raising(objs, raised) == [t |-> "raise", objs |-> objs, value |-> raised]
Outcome(objs, value) == IF IsRaise(value) THEN Raising(objs, value) ELSE Result(objs, value)

\* out[mask], df.copy(), head and sort_values: a new DataFrame made from the
\* one at src
in_place(objs, src, frame) == Result([objs EXCEPT ![src] = frame], src)
new_frame(objs, src, frame) == Result(Append(objs, frame), Len(objs) + 1)

\* pd.DataFrame(rows) and pd.DataFrame()
constructed(objs, frame) ==
    IF IsRaise(frame) THEN Raising(objs, frame)
    ELSE Result(Append(objs, frame), Len(objs) + 1)

\* line 168, out["value_display"] = ...: the statement of the module that
\* writes into an object
setitem(objs, ref, frame) == Result([objs EXCEPT ![ref] = frame], ref)

\* line 20 is false for some clause, and line 47 rebinds out
reaches_mask(frame, where) ==
    \E i \in DOMAIN where.items :
        LET col == Get(where.items[i], Lit.column, PNone)
        IN col.t = "str" /\ col.s \in Range(frame.columns)

\* lines 14-49: df itself when no statement rebound out, else the object of
\* the last out[mask]
filtered_object(objs, ref, made, masked) ==
    IF IsRaise(made) THEN Raising(objs, made)
    ELSE IF masked THEN new_frame(objs, ref, made)
    ELSE Result(objs, ref)

apply_where_filters_on(objs, ref, where) ==
    filtered_object(objs, ref, apply_where_filters(objs[ref], where),
                    reaches_mask(objs[ref], where))

\* lines 78-80: the objects after _evaluate_operand
operand_objects(objs, ref, operand) ==
    IF operand = PNone \/ (operand.t = "dict" /\ DOMAIN operand.f = {}) THEN objs
    ELSE apply_where_filters_on(objs, ref, Get(operand, Lit.where, PList(<<>>))).objs

\* lines 87-98: the objects after the operands, the denominator being
\* evaluated when the numerator did not raise
metric_objects(scoped, m) ==
    IF IsRaise(scoped) \/ m.operation.s \notin {Lit.ratio, Lit.pct} THEN scoped.objs
    ELSE IF IsRaise(_evaluate_operand(scoped.objs[scoped.value], m.numerator))
    THEN operand_objects(scoped.objs, scoped.value, m.numerator)
    ELSE operand_objects(operand_objects(scoped.objs, scoped.value, m.numerator),
                         scoped.value, m.denominator)

evaluate_metric_on(objs, ref, m) ==
    Outcome(metric_objects(apply_where_filters_on(objs, ref, m.where), m),
            evaluate_metric(objs[ref], m))

RECURSIVE specs_objects(_, _, _, _)

\* the loop over the specs after specs[i], given what evaluate_metric of
\* specs[i] returned or raised
next_spec(value, ref, specs, i) ==
    IF IsRaise(value) THEN value.objs ELSE specs_objects(value.objs, ref, specs, i + 1)

\* the objects after evaluate_metric ran on specs[i], specs[i+1], ... up to
\* the first one that raises
specs_objects(objs, ref, specs, i) ==
    IF i > Len(specs) THEN objs
    ELSE next_spec(evaluate_metric_on(objs, ref, specs[i]), ref, specs, i)

evaluate_kpi_specs_on(objs, ref, specs, max_items) ==
    Outcome(specs_objects(objs, ref, Take(specs, max_items), 1),
            evaluate_kpi_specs(objs[ref], specs, max_items))

build_metric_evidence_on(objs, ref, specs) ==
    constructed(specs_objects(objs, ref, specs, 1), build_metric_evidence(objs[ref], specs))

RECURSIVE labels_objects(_, _, _, _, _, _)

\* the loop over the labels after top_labels[k], given what evaluate_metric
\* of its subset returned or raised
next_label(value, base, labels, top_labels, m, k) ==
    IF IsRaise(value) THEN value.objs
    ELSE labels_objects(value.objs, base, labels, top_labels, m, k + 1)

\* line 162, given the subset of line 161
metric_of_subset(subset, base, labels, top_labels, m, k) ==
    next_label(evaluate_metric_on(subset.objs, subset.value, m), base, labels, top_labels,
               m, k)

\* lines 160-162: the objects after the loop ran for top_labels[k],
\* top_labels[k+1], ... up to the first label whose metric raises
labels_objects(objs, base, labels, top_labels, m, k) ==
    IF k > Len(top_labels) THEN objs
    ELSE metric_of_subset(new_frame(objs, base,
                                    subset_of(objs[base], labels, top_labels[k])),
                          base, labels, top_labels, m, k)

\* line 169: each result that the sort can give
sorted_results(written) ==
    {new_frame(written.objs, written.value, sorted) :
        sorted \in sorted_frames(written.objs[written.value])}

\* lines 168-169, given the object of line 165
write_display(made) ==
    sorted_results(setitem(made.objs, made.value,
                           with_value_display(made.objs[made.value])))

\* lines 165-169, given the rows or the raise of the loop
dimension_out(objs, dimension, rows) ==
    IF IsRaise(rows) THEN {Raising(objs, rows)}
    ELSE IF rows.items = <<>> THEN {constructed(objs, NoDataFrame)}
    ELSE write_display(constructed(objs, dimension_frame(dimension, rows.items)))

\* lines 156-169, given the order value_counts gave
dimension_loop(objs, base, dimension, m, labels, top_labels) ==
    dimension_out(labels_objects(objs, base, labels, top_labels, m, 1), dimension,
                  dimension_rows(objs[base], labels, dimension, m, top_labels))

\* line 155 on: base = df.copy() and the rest
dimension_base(base, dimension, m, limit) ==
    UNION {dimension_loop(base.objs, base.value, dimension, m,
                          labels_of(base.objs[base.value], dimension), top_labels) :
              top_labels \in top_label_lists(labels_of(base.objs[base.value], dimension),
                                             limit)}

\* each result that build_dimension_evidence can give
build_dimension_evidence(objs, ref, dimension, m, limit) ==
    IF dimension \notin Range(objs[ref].columns) \/ objs[ref].rows = <<>>
    THEN {constructed(objs, NoDataFrame)}
    ELSE dimension_base(new_frame(objs, ref, objs[ref]), dimension, m, limit)

\* contracts.py lines 46-53
CopilotAnswer(headline, bullets, confidence, evidence_df, chart_spec, assumptions) ==
    [t |-> "CopilotAnswer", headline |-> headline, bullets |-> bullets,
     confidence |-> confidence, evidence_df |-> evidence_df, chart_spec |-> chart_spec,
     assumptions |-> assumptions]

DimensionLimit == 15
DefaultEvidenceLimit == 200
BulletsMax == 4

\* DataFrame.head(n)
head(frame, n) == [frame EXCEPT !.rows = Take(@, n)]

\* line 207: scoped.isna().mean().mean() * 100, the mean over the columns of
\* the share of nulls of each, or 100.0 when scoped is empty
missingness(scoped) ==
    IF scoped.rows = <<>> \/ scoped.columns = <<>> THEN Float(100, 1)
    ELSE Float(100 * Cardinality({<<i, c>> \in (DOMAIN scoped.rows) \X Range(scoped.columns) :
                                     scoped.rows[i][c] = PNone}),
               Len(scoped.rows) * Len(scoped.columns))

\* lines 184-186
headline_of(metrics_table) ==
    IF metrics_table.rows = <<>> THEN Lit.DefaultHeadline
    ELSE metrics_table.rows[1][Lit.metric].s \o <<":", " ">>
            \o metrics_table.rows[1][Lit.value].s

\* lines 187-188
metric_bullets(metrics_table) ==
    [i \in DOMAIN Take(metrics_table.rows, BulletsMax) |->
        metrics_table.rows[i][Lit.metric].s \o <<" ", "=", " ">>
           \o metrics_table.rows[i][Lit.value].s \o <<" ", "(", "f", "r", "o", "m", " ">>
           \o metrics_table.rows[i][Lit.column].s \o <<")", ".">>]

\* lines 198-201, top_row being evidence_df.iloc[0]
top_bullet(dim, top_row) ==
    <<"T", "o", "p", " ">> \o dim \o <<":", " ">> \o top_row[dim].s \o <<" ", "a", "t", " ">>
       \o format_metric_value(top_row[Lit.value], PStr(Lit.auto)).s \o <<".">>

\* lines 217-218
focus_bullets(explanation_focus) ==
    IF explanation_focus.t = "str" /\ explanation_focus.s # <<>>
    THEN << <<"F", "o", "c", "u", "s", ":", " ">> \o explanation_focus.s \o <<".">> >>
    ELSE <<>>

\* lines 220-221
or_insufficient(bullets) == IF bullets = <<>> THEN <<Lit.Insufficient>> ELSE bullets

\* lines 216-225: the bullets of the answer
bullets_of(metrics_table, top, conf_reason, explanation_focus) ==
    LET bullets == or_insufficient(metric_bullets(metrics_table) \o top \o <<conf_reason.s>>
                                      \o focus_bullets(explanation_focus))
    IN PList([i \in DOMAIN Take(bullets, BulletsMax) |-> PStr(bullets[i])])

\* lines 207-230, given the evidence and the chart of lines 190-205
answer_of(metrics_table, evidence_df, top, chart_spec, confidence, plan) ==
    CopilotAnswer(PStr(headline_of(metrics_table)),
                  bullets_of(metrics_table, top, confidence.items[3], plan.explanation_focus),
                  confidence.items[1], evidence_df, chart_spec, plan.assumptions)

\* lines 204-205
limited(evidence_df, evidence_limit) ==
    IF Len(evidence_df.objs[evidence_df.value].rows) > evidence_limit
    THEN new_frame(evidence_df.objs, evidence_df.value,
                   head(evidence_df.objs[evidence_df.value], evidence_limit))
    ELSE evidence_df

\* lines 204-230, given the references of the frames: the objects after the
\* call and the answer, whose evidence_df is the frame of the object it refers to
finish(evidence_df, metrics_table, scoped, filtered_df, top, chart_spec, plan) ==
    Result(evidence_df.objs,
           answer_of(evidence_df.objs[metrics_table], evidence_df.objs[evidence_df.value],
                     top, chart_spec,
                     compute_confidence(Len(evidence_df.objs[scoped].rows),
                                        Len(evidence_df.objs[filtered_df].rows),
                                        Len(evidence_df.objs[metrics_table].rows),
                                        missingness(evidence_df.objs[scoped]), TRUE),
                     plan))

\* line 191 and line 202
table_chart == PDict((Lit.type :> PStr(Lit.table)) @@ (Lit.x :> PNone) @@ (Lit.y :> PNone))
bar_chart(dim) == PDict((Lit.type :> PStr(Lit.bar)) @@ (Lit.x :> PStr(dim)) @@ (Lit.y :> PStr(Lit.value)))

\* lines 197-202 and on, evidence_df being dim_evidence.head(evidence_limit)
with_top(evidence_df, metrics_table, scoped, filtered_df, dim, plan, evidence_limit) ==
    IF evidence_df.objs[evidence_df.value].rows = <<>>
    THEN Raising(evidence_df.objs, Raise("IndexError"))
    ELSE finish(limited(evidence_df, evidence_limit), metrics_table, scoped, filtered_df,
                <<top_bullet(dim, evidence_df.objs[evidence_df.value].rows[1])>>,
                bar_chart(dim), plan)

\* lines 196-230, given what build_dimension_evidence returned or raised and
\* evidence_df, the copy of line 190
with_dimension(dim_evidence, evidence_df, metrics_table, scoped, filtered_df, plan, evidence_limit) ==
    IF IsRaise(dim_evidence) THEN dim_evidence
    ELSE IF dim_evidence.objs[dim_evidence.value].rows = <<>>
    THEN finish(limited(Result(dim_evidence.objs, evidence_df), evidence_limit),
                metrics_table, scoped, filtered_df, <<>>, table_chart, plan)
    ELSE with_top(new_frame(dim_evidence.objs, dim_evidence.value,
                            head(dim_evidence.objs[dim_evidence.value], evidence_limit)),
                  metrics_table, scoped, filtered_df, plan.dimensions.items[1].s, plan,
                  evidence_limit)

\* lines 190-230, evidence_df being metrics_table.copy()
with_evidence(evidence_df, metrics_table, scoped, filtered_df, plan, evidence_limit) ==
    IF plan.dimensions.items # <<>> /\ plan.metrics.items # <<>>
    THEN {with_dimension(dim_evidence, evidence_df.value, metrics_table, scoped,
                         filtered_df, plan, evidence_limit) :
             dim_evidence \in build_dimension_evidence(evidence_df.objs, scoped,
                                                       plan.dimensions.items[1].s,
                                                       plan.metrics.items[1],
                                                       DimensionLimit)}
    ELSE {finish(limited(evidence_df, evidence_limit), metrics_table, scoped, filtered_df,
                 <<>>, table_chart, plan)}

\* lines 179-230, given what build_metric_evidence returned or raised
with_metrics(metrics_table, scoped, filtered_df, plan, evidence_limit) ==
    IF IsRaise(metrics_table) THEN {metrics_table}
    ELSE with_evidence(new_frame(metrics_table.objs, metrics_table.value,
                                 metrics_table.objs[metrics_table.value]),
                       metrics_table.value, scoped, filtered_df, plan, evidence_limit)

\* lines 178-230, given what apply_where_filters returned or raised
with_scoped(scoped, filtered_df, plan, evidence_limit) ==
    IF IsRaise(scoped) THEN {scoped}
    ELSE with_metrics(build_metric_evidence_on(scoped.objs, scoped.value, plan.metrics.items),
                      scoped.value, filtered_df, plan, evidence_limit)

\* each result that execute_query_plan can give
execute_query_plan(objs, full_df, filtered_df, plan, evidence_limit) ==
    with_scoped(apply_where_filters_on(objs, filtered_df, plan.filters), filtered_df, plan,
                evidence_limit)

---------------------------------------------------------------------------
(* json.loads, on the JSON the texts hold: objects, arrays, strings with the
   one-character escapes, integers, decimal fractions, true, false, null *)

PBool(b) == [t |-> "bool", b |-> b]

JsonWhitespace == {" ", "\t", "\n", "\r"}
ControlChars == {"\t", "\n", "\r", "\f"}
Escapes == ("\"" :> "\"") @@ ("\\" :> "\\") @@ ("/" :> "/") @@ ("n" :> "\n")
               @@ ("t" :> "\t") @@ ("r" :> "\r") @@ ("f" :> "\f")

JsonFail == [ok |-> FALSE]
JsonOk(v, i) == [ok |-> TRUE, v |-> v, i |-> i]

\* the first index from i on that holds no JSON whitespace
RECURSIVE SkipWhitespace(_, _)
SkipWhitespace(s, i) ==
    IF i <= Len(s) /\ s[i] \in JsonWhitespace THEN SkipWhitespace(s, i + 1) ELSE i

StartsWithAt(s, i, prefix) ==
    i + Len(prefix) - 1 <= Len(s) /\ SubSeq(s, i, i + Len(prefix) - 1) = prefix

\* the characters of a string literal from i, just past its opening quote
RECURSIVE ScanString(_, _, _)
ScanString(s, i, acc) ==
    IF i > Len(s) THEN JsonFail
    ELSE IF s[i] = "\"" THEN JsonOk(acc, i + 1)
    ELSE IF s[i] = "\\"
         THEN IF i + 1 <= Len(s) /\ s[i + 1] \in DOMAIN Escapes
              THEN ScanString(s, i + 2, Append(acc, Escapes[s[i + 1]]))
              ELSE JsonFail
    ELSE IF s[i] \in ControlChars THEN JsonFail
    ELSE ScanString(s, i + 1, Append(acc, s[i]))

\* the first index from i on that holds no digit
RECURSIVE SkipDigits(_, _)
SkipDigits(s, i) ==
    IF i <= Len(s) /\ s[i] \in Digits THEN SkipDigits(s, i + 1) ELSE i

\* a number from i: an optional minus, 0 or a digit string without a leading 0,
\* an optional fraction of a point and digits; an int or, with a fraction, a float
ScanNumber(s, i) ==
    LET neg == s[i] = "-"
        first == IF neg THEN i + 1 ELSE i
        intEnd == IF first <= Len(s) /\ s[first] = "0" THEN first + 1
                  ELSE SkipDigits(s, first)
        fracEnd == IF intEnd + 1 <= Len(s) /\ s[intEnd] = "." /\ s[intEnd + 1] \in Digits
                   THEN SkipDigits(s, intEnd + 1)
                   ELSE intEnd
        sign == IF neg THEN -1 ELSE 1
        whole == DigitsValue(SubSeq(s, first, intEnd - 1))
    IN IF intEnd = first THEN JsonFail
       ELSE IF fracEnd = intEnd THEN JsonOk(PInt(sign * whole), intEnd)
       ELSE LET k == fracEnd - intEnd - 1
                frac == DigitsValue(SubSeq(s, intEnd + 1, fracEnd - 1))
            IN JsonOk(Float(sign * (whole * Pow10(k) + frac), Pow10(k)), fracEnd)

RECURSIVE ScanValue(_, _), ScanMembers(_, _, _), ScanElements(_, _, _)

\* scan_once: the value that starts at i
ScanValue(s, i) ==
    IF i > Len(s) THEN JsonFail
    ELSE IF s[i] = "\""
         THEN LET r == ScanString(s, i + 1, <<>>)
              IN IF r.ok THEN JsonOk(PStr(r.v), r.i) ELSE JsonFail
    ELSE IF s[i] = "{"
         THEN LET j == SkipWhitespace(s, i + 1)
              IN IF j <= Len(s) /\ s[j] = "}" THEN JsonOk(PDict(<<>>), j + 1)
                 ELSE ScanMembers(s, j, <<>>)
    ELSE IF s[i] = "["
         THEN LET j == SkipWhitespace(s, i + 1)
              IN IF j <= Len(s) /\ s[j] = "]" THEN JsonOk(PList(<<>>), j + 1)
                 ELSE ScanElements(s, j, <<>>)
    ELSE IF StartsWithAt(s, i, Lit.null) THEN JsonOk(PNone, i + 4)
    ELSE IF StartsWithAt(s, i, Lit.true) THEN JsonOk(PBool(TRUE), i + 4)
    ELSE IF StartsWithAt(s, i, Lit.false) THEN JsonOk(PBool(FALSE), i + 5)
    ELSE IF s[i] \in Digits \cup {"-"} THEN ScanNumber(s, i)
    ELSE JsonFail

\* JSONObject: the members from the key at j; a repeated key keeps its last value
ScanMembers(s, j, f) ==
    IF j > Len(s) \/ s[j] # "\"" THEN JsonFail
    ELSE LET key == ScanString(s, j + 1, <<>>)
         IN IF ~key.ok THEN JsonFail
            ELSE LET colon == SkipWhitespace(s, key.i)
                 IN IF colon > Len(s) \/ s[colon] # ":" THEN JsonFail
                    ELSE LET value == ScanValue(s, SkipWhitespace(s, colon + 1))
                         IN IF ~value.ok THEN JsonFail
                            ELSE LET e == SkipWhitespace(s, value.i)
                                     g == (key.v :> value.v) @@ f
                                 IN IF e > Len(s) THEN JsonFail
                                    ELSE IF s[e] = "}" THEN JsonOk(PDict(g), e + 1)
                                    ELSE IF s[e] = ","
                                         THEN ScanMembers(s, SkipWhitespace(s, e + 1), g)
                                    ELSE JsonFail

\* JSONArray: the elements from the value at j
ScanElements(s, j, acc) ==
    LET value == ScanValue(s, j)
    IN IF ~value.ok THEN JsonFail
       ELSE LET e == SkipWhitespace(s, value.i)
                items == Append(acc, value.v)
            IN IF e > Len(s) THEN JsonFail
               ELSE IF s[e] = "]" THEN JsonOk(PList(items), e + 1)
               ELSE IF s[e] = ","
                    THEN ScanElements(s, SkipWhitespace(s, e + 1), items)
               ELSE JsonFail

\* json.loads(s): one value between optional whitespace, or JSONDecodeError
json_loads(s) ==
    LET r == ScanValue(s, SkipWhitespace(s, 1))
    IN IF ~r.ok THEN Raise("JSONDecodeError")
       ELSE IF SkipWhitespace(s, r.i) # Len(s) + 1 THEN Raise("JSONDecodeError")
       ELSE r.v

---------------------------------------------------------------------------
(* copilot/contracts.py: _extract_json_object *)

\* the grave accent, U+0060, which a string of this module cannot hold: the one
\* character of the texts that is written as a token
GraveAccent == "U+0060"

\* the code fence, three grave accents
Fence == <<GraveAccent, GraveAccent, GraveAccent>>

\* str.startswith
startswith(s, prefix) == StartsWithAt(s, 1, prefix)

\* str.splitlines(), the line boundary being "\n"
RECURSIVE splitlines(_)
splitlines(s) ==
    IF s = <<>> THEN <<>>
    ELSE LET breaks == {i \in DOMAIN s : s[i] = "\n"}
         IN IF breaks = {} THEN <<s>>
            ELSE LET k == CHOOSE i \in breaks : \A j \in breaks : i <= j
                 IN <<SubSeq(s, 1, k - 1)>> \o splitlines(SubSeq(s, k + 1, Len(s)))

\* "\n".join(lines)
RECURSIVE join(_)
join(lines) ==
    IF lines = <<>> THEN <<>>
    ELSE IF Len(lines) = 1 THEN lines[1]
    ELSE lines[1] \o <<"\n">> \o join(Tail(lines))

\* str.find and str.rfind of one character, 1-based; 0 when it is not there
find(s, c) ==
    LET at == {i \in DOMAIN s : s[i] = c}
    IN IF at = {} THEN 0 ELSE CHOOSE i \in at : \A j \in at : i <= j
rfind(s, c) ==
    LET at == {i \in DOMAIN s : s[i] = c}
    IN IF at = {} THEN 0 ELSE CHOOSE i \in at : \A j \in at : i >= j

\* lines 58-60: a fenced response loses its fence lines
strip_fences(stripped) ==
    IF startswith(stripped, Fence)
    THEN Strip(join(SelectSeq(splitlines(stripped),
                              LAMBDA line : ~startswith(Strip(line), Fence))))
    ELSE stripped

\* lines 74-81 with only the candidate that ends at the last "}" tried
scan_candidates_last_only(cleaned, start, idx) ==
    LET parsed == json_loads(SubSeq(cleaned, start, idx))
    IN IF parsed.t = "dict" THEN parsed ELSE ValidationError

\* lines 74-83: the candidates cleaned[start : idx + 1], idx from the last "}"
\* down to just past start; the first that parses to an object is returned
RECURSIVE scan_candidates(_, _, _)
scan_candidates(cleaned, start, idx) ==
    IF idx <= start THEN ValidationError
    ELSE LET parsed == json_loads(SubSeq(cleaned, start, idx))
         IN IF parsed.t = "dict" THEN parsed
            ELSE scan_candidates(cleaned, start, idx - 1)

_extract_json_object(s) ==
    LET cleaned == strip_fences(Strip(s))
        direct == json_loads(cleaned)
        start == find(cleaned, "{")
        end == rfind(cleaned, "}")
    IN IF direct.t = "dict" THEN direct
       ELSE IF start = 0 \/ end = 0 \/ start >= end THEN ValidationError
       ELSE scan_candidates(cleaned, start, end)

\* lines 239-241 past the extraction: a payload is parsed, a raise passes on
plan_of_payload(payload, cols) ==
    IF IsRaise(payload) THEN payload ELSE parse_query_plan(payload, cols)

parse_query_plan_text(s, cols) == plan_of_payload(_extract_json_object(s), cols)

---------------------------------------------------------------------------
(* The untrusted inputs of the parser *)

MaxWhere == 2       \* the longest where / filters list
LongName == 70      \* the length of a name longer than NameMax

\* a key the raw dict does not have
Absent == [t |-> "absent"]
Opt(key, v) == IF v.t = "absent" THEN <<>> ELSE (key :> v)

SeqsUpTo(S, n) == UNION {[1..k -> S] : k \in 0..n}

KnownColumns == PList(<<PStr(<<"x">>), PStr(<<"y">>), PStr(<<"a", "_", "b">>)>>)
ColumnLists == {PNone, KnownColumns}

NameValues == {Absent, PNone, PStr(<<"T">>), PStr(<<" ", "\t">>),
               PStr([i \in 1..LongName |-> "n"])}

OperationValues ==
    {Absent, PNone, PInt(1), PStr(<<>>)}
        \cup {PStr(o) : o \in ALLOWED_OPERATIONS}
        \cup {PStr(<<" ", "S", "u", "m", " ">>), PStr(<<"R", "A", "T", "I", "O">>),
              PStr(<<"e", "v", "a", "l">>), PStr(<<"c", "o", "u", "n", "t", "s">>),
              PStr(<<"_", "_", "i", "m", "p", "o", "r", "t", "_", "_", "(", "'", "o",
                     "s", "'", ")", ".", "s", "y", "s", "t", "e", "m", "(", "'", "i",
                     "d", "'", ")">>)}

ColumnValues ==
    {Absent, PNone, PInt(5), PStr(<<" ", " ">>),
     PStr(<<"x">>), PStr(<<" ", "y", "\n">>), PStr(<<"z">>), PStr(<<"a", "_", "b">>),
     PStr(<<"a", ";", "b">>), PStr(<<"x", "'">>), PStr(<<"a", " ", "(", "%", ")">>),
     PStr(<<"Z", "9", "-", ".", "/", ":">>)}

Clause(column, fop, value) ==
    PDict(Opt(Lit.column, column) @@ Opt(Lit.op, fop) @@ Opt(Lit.value, value))

WhereItems ==
    {PStr(<<"x">>),
     Clause(PStr(<<"x">>), PStr(Lit.eq), PInt(1)),
     Clause(PStr(<<"y", " ">>), Absent, PStr(<<"a">>)),
     Clause(PStr(<<"x">>), PStr(<<" ", "G", "T", " ">>),
            PStr(<<"t", "h", "i", "r", "t", "y">>)),
     Clause(PStr(<<"x">>), PStr(<<"L", "I", "K", "E">>), PInt(1)),
     Clause(Absent, PStr(Lit.eq), PInt(1)),
     Clause(PStr(<<"z">>), PStr(Lit.contains), Absent)}

WhereValues ==
    {Absent, PNone, PStr(<<"x">>)}
        \cup {PList(items) : items \in SeqsUpTo(WhereItems, MaxWhere)}

Operand(operation, column, where) ==
    PDict(Opt(Lit.operation, operation) @@ Opt(Lit.column, column)
            @@ Opt(Lit.where, where))

OperandValues ==
    {Absent, PNone,
     Operand(PStr(Lit.sum), PStr(<<"x">>), Absent),
     Operand(Absent, Absent,
             PList(<<Clause(PStr(<<"y">>), PStr(Lit.neq), PStr(<<"a">>))>>)),
     Operand(PStr(<<"M", "e", "a", "n">>), PStr(<<"z">>), PNone),
     Operand(PStr(Lit.ratio), PStr(<<"x">>), Absent),
     Operand(PStr(Lit.count), Absent,
             PList(<<Clause(PStr(<<"x">>), PStr(<<"L", "I", "K", "E">>), PInt(1))>>)),
     Operand(PStr(Lit.nunique), PStr(<<"y">>),
             PList(<<Clause(PStr(<<"z">>), PStr(Lit.in), PList(<<PInt(1)>>))>>))}

FormatValues == {Absent, PStr(<<"P", "e", "r", "c", "e", "n", "t">>),
                 PStr(<<"b", "o", "g", "u", "s">>)}

RawMetric(name, operation, column, where, numerator, denominator, format) ==
    PDict(Opt(Lit.name, name) @@ Opt(Lit.operation, operation)
            @@ Opt(Lit.column, column) @@ Opt(Lit.where, where)
            @@ Opt(Lit.numerator, numerator) @@ Opt(Lit.denominator, denominator)
            @@ Opt(Lit.format, format))

GoodOperand == Operand(PStr(Lit.sum), PStr(<<"x">>), Absent)

\* The raw metrics tried: the fields vary in families, the others held fixed.
RawMetrics ==
    {PNone, PStr(Lit.count), PList(<<>>)}
    \cup {RawMetric(n, o, c, Absent, d, d, Absent) :
            n \in NameValues, o \in OperationValues, c \in ColumnValues,
            d \in {Absent, GoodOperand}}
    \cup {RawMetric(PStr(<<"T">>), o, c, w, GoodOperand, GoodOperand, Absent) :
            o \in {Absent, PStr(Lit.sum), PStr(Lit.ratio), PStr(<<"e", "v", "a", "l">>)},
            c \in {Absent, PStr(<<"x">>)}, w \in WhereValues}
    \cup {RawMetric(Absent, o, PStr(<<"y">>), w, n, d, f) :
            o \in {Absent, PStr(Lit.ratio), PStr(<<" ", "P", "C", "T">>), PStr(Lit.max)},
            w \in {Absent, PList(<<Clause(PStr(<<"x">>), PStr(Lit.lte), PInt(2))>>)},
            n \in OperandValues, d \in OperandValues, f \in FormatValues}

MaxMetrics == 7     \* the longest metrics list, past MetricsCap
MaxDims == 3        \* the longest dimensions list, past DimensionsCap

Payload(intent, metrics, dimensions, filters, time_grain, chart_type, explanation_focus, assumptions) ==
    PDict(Opt(Lit.intent, intent) @@ Opt(Lit.metrics, metrics)
            @@ Opt(Lit.dimensions, dimensions) @@ Opt(Lit.filters, filters)
            @@ Opt(Lit.time_grain, time_grain) @@ Opt(Lit.chart_type, chart_type)
            @@ Opt(Lit.explanation_focus, explanation_focus)
            @@ Opt(Lit.assumptions, assumptions))

MetricA == RawMetric(PStr(<<"A">>), Absent, Absent, Absent, Absent, Absent, Absent)
MetricB == RawMetric(PStr(<<"B">>), PStr(Lit.sum), PStr(<<"x">>), Absent, Absent,
                     Absent, Absent)
MetricE == RawMetric(PStr(<<"E">>), PStr(<<"e", "v", "a", "l">>), Absent, Absent,
                     Absent, Absent, Absent)
PlanMetricItems == {MetricA, MetricB, MetricE}

DimItems == {PInt(5), PStr(<<"x">>), PStr(<<" ", "y", "\n">>), PStr(<<"z">>),
             PStr(<<"a", "_", "b">>), PStr(<<"a", ";", "b">>)}

\* The plan payloads tried: the fields vary in families, the others absent.
Payloads ==
    {PNone, PList(<<>>)}
    \cup {Payload(Absent, m, Absent, Absent, Absent, Absent, Absent, Absent) :
            m \in {PNone, PStr(<<"A">>)}
                    \cup {PList(ms) : ms \in SeqsUpTo(PlanMetricItems, MaxMetrics)}}
    \cup {Payload(Absent, m, d, f, Absent, Absent, Absent, Absent) :
            m \in {Absent, PList(<<MetricB>>)}, d \in {Absent, PList(<<PStr(<<"x">>)>>)},
            f \in WhereValues}
    \cup {Payload(Absent, Absent, d, Absent, Absent, Absent, Absent, Absent) :
            d \in {PNone, PStr(<<"x">>)}
                    \cup {PList(ds) : ds \in SeqsUpTo(DimItems, MaxDims)}}
    \cup {Payload(i, Absent, Absent, Absent, g, c, e, a) :
            i \in {Absent, PNone, PStr(<<"T", "r", "e", "n", "d", " ">>),
                   PStr(<<"b", "o", "g", "u", "s">>)},
            g \in {Absent, PInt(1), PStr(<<" ", "m", "o", "n", "t", "h">>)},
            c \in {Absent, PNone, PStr(<<" ", "B", "A", "R">>), PStr(<<"p", "i", "e">>)},
            e \in {Absent, PNone, PStr(<<" ", "e", "x", "e", "c">>)},
            a \in {Absent, PStr(<<"a">>),
                   PList(<<PStr(<<"a", " ">>), PStr(<<" ">>), PNone, PInt(12),
                           PStr(<<"b">>)>>)}}
    \cup {Payload(Absent,
                  PList(<<RawMetric(PStr(<<"M">>), PStr(Lit.sum), c, Absent, Absent,
                                    Absent, Absent),
                          RawMetric(PStr(<<"W">>), Absent, Absent,
                                    PList(<<Clause(c, PStr(Lit.eq), PInt(1))>>),
                                    Absent, Absent, Absent)>>),
                  PList(<<c>>), f, Absent, Absent, Absent, Absent) :
            c \in ColumnValues \ {Absent},
            f \in {Absent, PList(<<Clause(PStr(<<"x">>), PStr(Lit.eq), PInt(1))>>)}}
    \cup {Payload(Absent, Absent, Absent, PList(<<Clause(c, PStr(Lit.gte), PInt(1))>>),
                  Absent, Absent, Absent, Absent) :
            c \in ColumnValues \ {Absent}}
    \cup {Payload(Absent,
                  PList(<<MetricE,
                          RawMetric(PStr(<<"F">>), Absent, Absent, Absent, Absent, Absent, f),
                          MetricB>>),
                  Absent, Absent, Absent, Absent, Absent, Absent) :
            f \in FormatValues \cup {PNone, PStr(<<" ", "d", "a", "y", "s">>)}}

---------------------------------------------------------------------------
(* The parser applied to an untrusted value *)

InitParse ==
    /\ raw \in RawMetrics \cup Payloads
    /\ columns \in ColumnLists
    /\ text = <<>>
    /\ df = NoDataFrame
    /\ spec = PNone
    /\ op = "init"
    /\ out = PNone

ParseMetricSpec ==
    /\ op = "init"
    /\ op' = "parse_metric_spec"
    /\ out' = parse_metric_spec(raw, columns)
    /\ UNCHANGED <<raw, columns, text, df, spec>>

ParseQueryPlan ==
    /\ op = "init"
    /\ op' = "parse_query_plan"
    /\ out' = parse_query_plan(raw, columns)
    /\ UNCHANGED <<raw, columns, text, df, spec>>

NextParse == ParseMetricSpec \/ ParseQueryPlan

SpecParse == InitParse /\ [][NextParse]_vars

---------------------------------------------------------------------------
(* The evaluator applied to a dataset and a MetricSpec *)

MaxRows == 2        \* the most rows of a dataset
MaxEvalWhere == 2   \* the longest where list of an evaluated metric

Row(x, g) == (<<"x">> :> x) @@ (<<"g">> :> g)

RowSet == {Row(PInt(1), PStr(<<"a">>)), Row(PInt(2), PStr(<<"A", "b">>)),
           Row(PNone, PStr(<<"a">>)), Row(PInt(0), PNone),
           Row(PInt(2), PStr(<<"2">>))}

\* the dtype pandas gives a column built from these cells
DtypeOf(cells) ==
    IF \E c \in cells : c.t = "str" THEN "object"
    ELSE IF \A c \in cells : c = PNone THEN "object"
    ELSE IF PNone \in cells THEN "float64"
    ELSE "int64"

\* pd.DataFrame of the rows, columns x and g
MakeDf(rows) ==
    DataFrame(<<<<"x">>, <<"g">>>>,
              [c \in {<<"x">>, <<"g">>} |-> DtypeOf({rows[i][c] : i \in DOMAIN rows})],
              rows)

\* the dataset of tests/test_kpi_dsl.py
TestRow(x, y, grp) == (<<"x">> :> PInt(x)) @@ (<<"y">> :> PInt(y)) @@ (<<"g", "r", "p">> :> PStr(grp))

TestDf ==
    DataFrame(<<<<"x">>, <<"y">>, <<"g", "r", "p">>>>,
              (<<"x">> :> "int64") @@ (<<"y">> :> "int64") @@ (<<"g", "r", "p">> :> "object"),
              <<TestRow(1, 10, <<"a">>), TestRow(2, 20, <<"a">>),
                TestRow(3, 30, <<"b">>), TestRow(4, 40, <<"b">>)>>)

Datasets == {MakeDf(rows) : rows \in SeqsUpTo(RowSet, MaxRows)} \cup {TestDf}

FilterClause(column, fop, value) ==
    PDict((Lit.column :> PStr(column)) @@ (Lit.op :> PStr(fop)) @@ (Lit.value :> value))

CoreClauses ==
    {FilterClause(<<"g">>, Lit.eq, PStr(<<"a">>)),
     FilterClause(<<"x">>, Lit.gt, PInt(1)),
     FilterClause(<<"g">>, Lit.contains, PStr(<<"A">>)),
     FilterClause(<<"g">>, Lit.contains, PNone)}

EvalClauses ==
    CoreClauses \cup
    {FilterClause(<<"g">>, Lit.neq, PStr(<<"a">>)),
     FilterClause(<<"x">>, Lit.gte, PStr(<<"t", "h", "i", "r", "t", "y">>)),
     FilterClause(<<"x">>, Lit.lt, PInt(2)),
     FilterClause(<<"g">>, Lit.lte, PStr(<<"2">>)),
     FilterClause(<<"g">>, Lit.in, PList(<<PStr(<<"a">>), PStr(<<"2">>)>>)),
     FilterClause(<<"x">>, Lit.in, PInt(2)),
     FilterClause(<<"g">>, Lit.contains, PStr(<<"(">>)),
     FilterClause(<<"g">>, Lit.contains, PStr(<<".">>)),
     FilterClause(<<"g">>, Lit.contains, PStr(<<"a", "*", "b">>)),
     FilterClause(<<"x">>, Lit.contains, PStr(<<"2", ".", "0">>)),
     FilterClause(<<"x">>, Lit.eq, PList(<<PInt(0), PInt(2)>>)),
     FilterClause(<<"x">>, Lit.neq, PList(<<PInt(1)>>)),
     FilterClause(<<"z", "z">>, Lit.eq, PInt(1))}

EvalOperand(operation, column, where) ==
    PDict((Lit.operation :> PStr(operation)) @@ (Lit.column :> column)
            @@ (Lit.where :> PList(where)))

EvalOperands ==
    {EvalOperand(Lit.count, PNone, <<>>),
     EvalOperand(Lit.count, PNone, <<FilterClause(<<"g">>, Lit.eq, PStr(<<"a">>))>>),
     EvalOperand(Lit.sum, PStr(<<"x">>), <<>>),
     EvalOperand(Lit.mean, PStr(<<"x">>), <<FilterClause(<<"x">>, Lit.gt, PInt(1))>>),
     EvalOperand(Lit.sum, PStr(<<"z", "z">>), <<>>),
     EvalOperand(Lit.count, PStr(<<"g">>),
                 <<FilterClause(<<"x">>, Lit.gte, PStr(<<"t", "h", "i", "r", "t", "y">>))>>),
     EvalOperand(Lit.count, PNone,
                 <<FilterClause(<<"g">>, Lit.contains, PStr(<<"(">>))>>),
     EvalOperand(Lit.sum, PStr(<<"y">>), <<>>),
     EvalOperand(Lit.count, PNone, <<FilterClause(<<"g", "r", "p">>, Lit.eq, PStr(<<"a">>))>>)}

EvalSpec(operation, column, where, numerator, denominator) ==
    MetricSpec(PStr(<<"m">>), PStr(operation), column, numerator, denominator,
               PList(where), PStr(Lit.auto), PStr(<<>>))

\* The MetricSpecs evaluated: the parser can return each of them but those with
\* an operand of None, which only a directly constructed MetricSpec has.
MetricSpecs ==
    {EvalSpec(o, c, w, PNone, PNone) :
        o \in ALLOWED_BASE_OPERATIONS,
        c \in {PNone, PStr(<<"x">>), PStr(<<"g">>), PStr(<<"z", "z">>)},
        w \in SeqsUpTo(EvalClauses, 1)}
    \cup {EvalSpec(o, PStr(<<"x">>), w, PNone, PNone) :
            o \in {Lit.count, Lit.sum}, w \in SeqsUpTo(CoreClauses, MaxEvalWhere)}
    \cup {EvalSpec(Lit.nunique, PStr(<<"g", "r", "p">>), <<>>, PNone, PNone)}
    \cup {EvalSpec(o, PNone, w, n, d) :
            o \in {Lit.ratio, Lit.pct},
            w \in {<<>>, <<FilterClause(<<"x">>, Lit.gt, PInt(1))>>},
            n \in EvalOperands \cup {PNone}, d \in EvalOperands \cup {PNone}}

InitEval ==
    /\ raw = PNone
    /\ columns = PNone
    /\ text = <<>>
    /\ df \in Datasets
    /\ spec \in MetricSpecs
    /\ op = "init"
    /\ out = PNone

EvaluateMetric ==
    /\ op = "init"
    /\ op' = "evaluate_metric"
    /\ out' = evaluate_metric(df, spec)
    /\ UNCHANGED <<raw, columns, text, df, spec>>

NextEval == EvaluateMetric

SpecEval == InitEval /\ [][NextEval]_vars

---------------------------------------------------------------------------
(* The filter engine applied to a dataset and a where list *)

\* clauses the parser never returns but apply_where_filters accepts: an op
\* outside the 8 it tests for
UnknownOpClause == FilterClause(<<"g">>, <<"l", "i", "k", "e">>, PStr(<<"a">>))

FilterClauses == EvalClauses \cup {UnknownOpClause}

\* the clauses that occur in the lists of more than one clause
PairClauses ==
    CoreClauses \cup {UnknownOpClause,
                      FilterClause(<<"z", "z">>, Lit.eq, PInt(1)),
                      FilterClause(<<"x">>, Lit.lt, PInt(2))}

WhereLists ==
    {PList(w) : w \in SeqsUpTo(FilterClauses, 1) \cup SeqsUpTo(PairClauses, MaxEvalWhere)}

InitFilter ==
    /\ raw \in WhereLists
    /\ columns = PNone
    /\ text = <<>>
    /\ df \in Datasets
    /\ spec = PNone
    /\ op = "init"
    /\ out = PNone

ApplyWhereFilters ==
    /\ op = "init"
    /\ op' = "apply_where_filters"
    /\ out' = apply_where_filters(df, raw)
    /\ UNCHANGED <<raw, columns, text, df, spec>>

NextFilter == ApplyWhereFilters

SpecFilter == InitFilter /\ [][NextFilter]_vars

---------------------------------------------------------------------------
(* The formatter applied to a value and a format hint *)

\* the values formatted: missing, NaN and numbers on both sides of the
\* thresholds 1 and 100, with ties of rounding and more than three digits
MetricValues ==
    {PNone, NaN, Float(-1, 100000)}
        \cup {Float(n, d) : n \in {-3, 0, 1, 5, 7, 999, 1999, 2469, 1234567},
                            d \in {1, 2, 3, 8}}

\* the six hints of the schema and one that is none of them
FormatHints == ALLOWED_FORMATS \cup {<<"w", "e", "i", "r", "d">>}

InitFormat ==
    /\ raw \in MetricValues
    /\ columns = PNone
    /\ text \in FormatHints
    /\ df = PNone
    /\ spec = PNone
    /\ op = "init"
    /\ out = PNone

FormatMetricValue ==
    /\ op = "init"
    /\ op' = "format_metric_value"
    /\ out' = format_metric_value(raw, PStr(text))
    /\ UNCHANGED <<raw, columns, text, df, spec>>

NextFormat == FormatMetricValue

SpecFormat == InitFormat /\ [][NextFormat]_vars

---------------------------------------------------------------------------
(* The display pipeline applied to a dataset and a list of MetricSpecs *)

MaxSpecs == 2       \* the most MetricSpecs of a list

DisplayDatasets == {MakeDf(rows) : rows \in SeqsUpTo(RowSet, 1)} \cup {TestDf}

\* a name longer than the 24 characters a KPI tile shows
TileName == [i \in 1..(KpiNameMax + 6) |-> "n"]

DisplaySpec(name, operation, column, numerator, denominator, where, fmt) ==
    MetricSpec(PStr(name), PStr(operation), column, numerator, denominator,
               PList(where), PStr(fmt), PStr(<<"h">>))

\* a pct and a ratio of the rows with x > 1 among all rows, under the format
\* hints; a count, a sum, and a count whose filter raises
DisplaySpecs ==
    {DisplaySpec(<<"p">>, Lit.pct, PNone,
                 EvalOperand(Lit.count, PNone, <<FilterClause(<<"x">>, Lit.gt, PInt(1))>>),
                 EvalOperand(Lit.count, PNone, <<>>), <<>>, f) : f \in ALLOWED_FORMATS}
    \cup {DisplaySpec(<<"r">>, Lit.ratio, PNone,
                      EvalOperand(Lit.count, PNone, <<FilterClause(<<"x">>, Lit.gt, PInt(1))>>),
                      EvalOperand(Lit.count, PNone, <<>>), <<>>, f) :
             f \in {Lit.auto, Lit.number}}
    \cup {DisplaySpec(<<"c">>, Lit.count, PNone, PNone, PNone, <<>>, f) :
             f \in {Lit.auto, Lit.integer}}
    \cup {DisplaySpec(TileName, Lit.sum, PStr(<<"x">>), PNone, PNone, <<>>, Lit.currency),
          DisplaySpec(<<"e">>, Lit.count, PNone, PNone, PNone,
                      <<FilterClause(<<"g">>, Lit.contains, PStr(<<"(">>))>>, Lit.auto)}

InitDisplay ==
    /\ raw \in {PInt(1), PInt(DefaultMaxItems)}
    /\ columns = PNone
    /\ text = <<>>
    /\ df \in DisplayDatasets
    /\ spec \in SeqsUpTo(DisplaySpecs, MaxSpecs)
    /\ op = "init"
    /\ out = PNone

\* evaluate_kpi_specs(df, specs, max_items)
EvaluateKpiSpecs ==
    /\ op = "init"
    /\ op' = "evaluate_kpi_specs"
    /\ out' = evaluate_kpi_specs(df, spec, raw.n)
    /\ UNCHANGED <<raw, columns, text, df, spec>>

\* build_metric_evidence(df, specs)
BuildMetricEvidence ==
    /\ op = "init"
    /\ op' = "build_metric_evidence"
    /\ out' = build_metric_evidence(df, spec)
    /\ UNCHANGED <<raw, columns, text, df, spec>>

NextDisplay == EvaluateKpiSpecs \/ BuildMetricEvidence

SpecDisplay == InitDisplay /\ [][NextDisplay]_vars

---------------------------------------------------------------------------
(* The core called any number of times, in any order, on one dataset and   *)
(* one plan.  df is the caller's dataset object and spec the plan; raw     *)
(* holds each evaluate_metric made so far, as the MetricSpec with what the *)
(* call returned or raised.                                                *)

\* a dataset with nulls, whose labels a and Ab tie in count
NullsDf ==
    MakeDf(<<Row(PInt(1), PStr(<<"a">>)), Row(PNone, PStr(<<"a">>)),
             Row(PInt(2), PStr(<<"A", "b">>)), Row(PInt(0), PNone),
             Row(PInt(2), PStr(<<"A", "b">>))>>)

CoreDatasets == {MakeDf(<<>>), NullsDf, TestDf}

\* a sum, a pct whose numerator filters, and a count whose filter raises
CoreSpecs ==
    {DisplaySpec(<<"s">>, Lit.sum, PStr(<<"x">>), PNone, PNone,
                 <<FilterClause(<<"x">>, Lit.gt, PInt(0))>>, Lit.auto),
     DisplaySpec(<<"p">>, Lit.pct, PNone,
                 EvalOperand(Lit.count, PNone, <<FilterClause(<<"x">>, Lit.gt, PInt(1))>>),
                 EvalOperand(Lit.count, PNone, <<>>), <<>>, Lit.auto),
     DisplaySpec(<<"e">>, Lit.count, PNone, PNone, PNone,
                 <<FilterClause(<<"g">>, Lit.contains, PStr(<<"(">>))>>, Lit.auto)}

\* no filter, a filter that drops rows, one on a column no dataset has, and
\* one that raises on a dataset with the column g
PlanFilters ==
    {<<>>,
     <<FilterClause(<<"x">>, Lit.gt, PInt(1))>>,
     <<FilterClause(<<"z">>, Lit.eq, PInt(1))>>,
     <<FilterClause(<<"g">>, Lit.contains, PStr(<<"(">>))>>}

PlanDimensions == {<<>>, <<PStr(<<"g">>)>>, <<PStr(<<"g", "r", "p">>)>>}

CorePlans ==
    {CopilotQueryPlan(PStr(<<"q">>), PStr(Lit.summary), PList(metrics), PList(dimensions),
                      PList(filters), PNone, PStr(Lit.table), focus, PList(<<>>), PNone) :
        metrics \in SeqsUpTo(CoreSpecs, MaxSpecs), dimensions \in PlanDimensions,
        filters \in PlanFilters, focus \in {PNone, PStr(<<"f">>)}}

InitCore ==
    /\ raw = {}
    /\ columns = PNone
    /\ text = <<>>
    /\ df \in CoreDatasets
    /\ spec \in CorePlans
    /\ op = "init"
    /\ out = PNone

\* what a call that returns a DataFrame hands back: the frame of the object
\* it returned, or what it raised
Returned(result) == IF IsRaise(result) THEN result.value ELSE result.objs[result.value]

\* the where lists of the plan and of its metrics
PlanWheres == {spec.filters} \cup {spec.metrics.items[i].where : i \in DOMAIN spec.metrics.items}

\* apply_where_filters(df, where)
CallApplyWhereFilters ==
    \E where \in PlanWheres :
        \E result \in {apply_where_filters_on(<<df>>, 1, where)} :
            /\ op' = "apply_where_filters"
            /\ df' = result.objs[1]
            /\ out' = Returned(result)
            /\ UNCHANGED <<raw, columns, text, spec>>

\* evaluate_metric(df, spec)
CallEvaluateMetric ==
    \E i \in DOMAIN spec.metrics.items :
        \E result \in {evaluate_metric_on(<<df>>, 1, spec.metrics.items[i])} :
            /\ op' = "evaluate_metric"
            /\ df' = result.objs[1]
            /\ out' = result.value
            /\ raw' = raw \cup {<<spec.metrics.items[i], result.value>>}
            /\ UNCHANGED <<columns, text, spec>>

\* evaluate_kpi_specs(df, specs)
CallEvaluateKpiSpecs ==
    \E result \in {evaluate_kpi_specs_on(<<df>>, 1, spec.metrics.items, DefaultMaxItems)} :
        /\ op' = "evaluate_kpi_specs"
        /\ df' = result.objs[1]
        /\ out' = result.value
        /\ UNCHANGED <<raw, columns, text, spec>>

\* build_metric_evidence(df, specs)
CallBuildMetricEvidence ==
    \E result \in {build_metric_evidence_on(<<df>>, 1, spec.metrics.items)} :
        /\ op' = "build_metric_evidence"
        /\ df' = result.objs[1]
        /\ out' = Returned(result)
        /\ UNCHANGED <<raw, columns, text, spec>>

\* execute_query_plan(df, df, plan)
CallExecuteQueryPlan ==
    \E result \in execute_query_plan(<<df>>, 1, 1, spec, DefaultEvidenceLimit) :
        /\ op' = "execute_query_plan"
        /\ df' = result.objs[1]
        /\ out' = result.value
        /\ UNCHANGED <<raw, columns, text, spec>>

NextCore ==
    \/ CallApplyWhereFilters
    \/ CallEvaluateMetric
    \/ CallEvaluateKpiSpecs
    \/ CallBuildMetricEvidence
    \/ CallExecuteQueryPlan

SpecCore == InitCore /\ [][NextCore]_vars

---------------------------------------------------------------------------
(* The model responses given to _extract_json_object *)

MaxCommentary == 2  \* the most pieces of prose after the JSON object

\* A JSON object as written and the dict it denotes
JsonObject(s, value) == [text |-> s, value |-> value]

JsonObjects ==
    {JsonObject(<<"{", "\"", "a", "\"", ":", "1", "}">>,
                PDict((<<"a">> :> PInt(1)))),
     JsonObject(<<"{", "}">>,
                PDict(<<>>)),
     JsonObject(<<"{", "\"", "a", "\"", ":", " ", "{", "\"", "b", "\"", ":", " ", "[",
        "1", ",", " ", "\"", "}", "\"", "]", "}", "}">>,
                PDict((<<"a">> :> PDict((<<"b">> :> PList(<<PInt(1),
        PStr(<<"}">>)>>)))))),
     JsonObject(<<"{", " ", "\"", "k", "\"", " ", ":", " ", "\"", "v", "\\", "\"", "{",
        "\"", " ", ",", " ", "\"", "n", "\"", " ", ":", " ", "-", "2", "0", " ", "}">>,
                PDict((<<"k">> :> PStr(<<"v", "\"", "{">>)) @@ (<<"n">> :> PInt(-20)))),
     JsonObject(<<"{", "\"", "a", "\"", ":", "1", ",", "\"", "a", "\"", ":", "n", "u",
        "l", "l", ",", "\"", "t", "\"", ":", "t", "r", "u", "e", "}">>,
                PDict((<<"a">> :> PNone) @@ (<<"t">> :> PBool(TRUE)))),
     JsonObject(<<"{", "\"", "i", "n", "t", "e", "n", "t", "\"", ":", "\"", "t", "r",
        "e", "n", "d", "\"", ",", "\"", "m", "e", "t", "r", "i", "c", "s", "\"", ":",
        "[", "]", "}">>,
                PDict((<<"i", "n", "t", "e", "n", "t">> :> PStr(<<"t", "r", "e", "n",
        "d">>)) @@ (<<"m", "e", "t", "r", "i", "c", "s">> :> PList(<<>>)))),
     JsonObject(<<"{", "\"", "f", "i", "l", "t", "e", "r", "s", "\"", ":", " ", "[",
        "\"", "x", "\"", "]", "}">>,
                PDict((<<"f", "i", "l", "t", "e", "r",
        "s">> :> PList(<<PStr(<<"x">>)>>)))),
     JsonObject(<<"{", "\"", "m", "e", "t", "r", "i", "c", "s", "\"", ":", " ", "\"",
        "A", "\"", "}">>,
                PDict((<<"m", "e", "t", "r", "i", "c", "s">> :> PStr(<<"A">>)))),
     JsonObject(<<"{", "\"", "m", "e", "t", "r", "i", "c", "s", "\"", ":", " ", "[", "{",
        "\"", "o", "p", "e", "r", "a", "t", "i", "o", "n", "\"", ":", " ", "\"", "s",
        "u", "m", "\"", ",", " ", "\"", "c", "o", "l", "u", "m", "n", "\"", ":", " ",
        "\"", "x", "\"", "}", "]", ",", " ", "\"", "d", "i", "m", "e", "n", "s", "i",
        "o", "n", "s", "\"", ":", " ", "[", "\"", "x", "\"", "]", "}">>,
                PDict((<<"m", "e", "t", "r", "i", "c", "s">> :> PList(<<PDict((<<"o",
        "p", "e", "r", "a", "t", "i", "o", "n">> :> PStr(<<"s", "u", "m">>)) @@ (<<"c",
        "o", "l", "u", "m", "n">> :> PStr(<<"x">>)))>>)) @@ (<<"d", "i", "m", "e", "n",
        "s", "i", "o", "n", "s">> :> PList(<<PStr(<<"x">>)>>))))}

CommentaryPieces ==
    {<<" ", "-", "-", " ", "d", "o", "n", "e">>,
     <<"}">>,
     <<"{">>,
     <<" ">>,
     <<"\"">>,
     <<"\n">>,
     <<"]">>}

RECURSIVE Concat(_)
Concat(parts) == IF parts = <<>> THEN <<>> ELSE parts[1] \o Concat(Tail(parts))

Commentaries == {Concat(parts) : parts \in SeqsUpTo(CommentaryPieces, MaxCommentary)}

Preambles == {<<>>, <<" ", " ">>, <<"P", "l", "a", "n", ":", " ">>}

FencedTexts ==
    {<<GraveAccent, GraveAccent, GraveAccent, "j", "s", "o", "n", "\n">>
        \o o.text \o <<"\n", GraveAccent, GraveAccent, GraveAccent>> \o c :
        o \in JsonObjects, c \in {<<>>, <<"\n", "D", "o", "n", "e", ".", " ", "}">>}}

OtherTexts ==
    {<<>>,
     <<"n", "o", " ", "j", "s", "o", "n">>,
     <<"}", "{">>,
     <<"{">>,
     <<"[", "1", "]">>,
     <<"\"", "{", "}", "\"">>,
     <<"{", "\"", "a", "\"", ":", "1">>,
     <<"{", "\"", "a", "\"", ":", "t", "r", "u", "}">>}

Texts ==
    {p \o o.text \o c : p \in Preambles, o \in JsonObjects, c \in Commentaries}
        \cup FencedTexts \cup OtherTexts

InitJson ==
    /\ raw = PNone
    /\ columns \in ColumnLists
    /\ text \in Texts
    /\ df = NoDataFrame
    /\ spec = PNone
    /\ op = "init"
    /\ out = PNone

ExtractJsonObject ==
    /\ op = "init"
    /\ op' = "_extract_json_object"
    /\ out' = _extract_json_object(text)
    /\ UNCHANGED <<raw, columns, text, df, spec>>

ParseQueryPlanText ==
    /\ op = "init"
    /\ op' = "parse_query_plan_text"
    /\ out' = parse_query_plan_text(text, columns)
    /\ UNCHANGED <<raw, columns, text, df, spec>>

NextJson == ExtractJsonObject \/ ParseQueryPlanText

SpecJson == InitJson /\ [][NextJson]_vars

---------------------------------------------------------------------------
(* Properties of the parser *)

NineOperations == {Lit.count, Lit.sum, Lit.mean, Lit.median, Lit.min, Lit.max,
                   Lit.nunique, Lit.ratio, Lit.pct}
SevenBaseOperations == {Lit.count, Lit.sum, Lit.mean, Lit.median, Lit.min, Lit.max,
                        Lit.nunique}
EightFilterOps == {Lit.eq, Lit.neq, Lit.gt, Lit.gte, Lit.lt, Lit.lte, Lit.in,
                   Lit.contains}

\* the operation string of a raw metric, trimmed and lower-cased
RawOperation(r) == Lower(Strip(ToStr(Get(r, Lit.operation, PStr(Lit.count)))))

CodeLikeOperation ==
    PStr(<<"_", "_", "i", "m", "p", "o", "r", "t", "_", "_", "(", "'", "o", "s", "'",
           ")", ".", "s", "y", "s", "t", "e", "m", "(", "'", "i", "d", "'", ")">>)

\* C1: parse_metric_spec raises ValidationError for every raw metric whose
\* operation string, trimmed and lower-cased, is not one of the nine operations,
\* and no MetricSpec it returns has an operation outside the nine.
C1_UnsafeOperationRejected ==
    op = "parse_metric_spec" =>
        /\ (raw.t = "dict" /\ RawOperation(raw) \notin NineOperations)
               => out = ValidationError
        /\ out.t = "MetricSpec" => out.operation.s \in NineOperations

\* C1 witness: the code-like operation of the test is rejected.
C1_Witness ==
    /\ op = "parse_metric_spec"
    /\ raw.t = "dict"
    /\ Get(raw, Lit.name, PNone) = PStr(<<"T">>)
    /\ Get(raw, Lit.operation, PNone) = CodeLikeOperation
    /\ out = ValidationError

\* the columns of a normalized where list
ClauseColumns(where) == {where.items[i].f[Lit.column] : i \in DOMAIN where.items}

\* the columns of a parsed operand
OperandColumns(o) ==
    IF o = PNone THEN {}
    ELSE ({o.f[Lit.column]} \ {PNone}) \cup ClauseColumns(o.f[Lit.where])

\* every column a MetricSpec references
SpecColumns(m) ==
    ({m.column} \ {PNone}) \cup ClauseColumns(m.where)
        \cup OperandColumns(m.numerator) \cup OperandColumns(m.denominator)

\* the column values of the object items of a raw where list
RawClauseRefs(w) ==
    IF w.t = "list"
    THEN {Get(w.items[i], Lit.column, PNone) :
            i \in {j \in DOMAIN w.items : w.items[j].t = "dict"}}
    ELSE {}

RawOperandRefs(o) ==
    IF o.t = "dict"
    THEN {Get(o, Lit.column, PNone)} \cup RawClauseRefs(Get(o, Lit.where, PNone))
    ELSE {}

\* the column values a raw metric references: its column, its where clauses and,
\* for ratio and pct, its operands
RawRefs(r) ==
    {Get(r, Lit.column, PNone)} \cup RawClauseRefs(Get(r, Lit.where, PNone))
        \cup (IF RawOperation(r) \in {Lit.ratio, Lit.pct}
              THEN RawOperandRefs(Get(r, Lit.numerator, PNone))
                       \cup RawOperandRefs(Get(r, Lit.denominator, PNone))
              ELSE {})

\* C2: with a known-column list, every column of a returned MetricSpec (its
\* column, its where columns, its operands' columns and where columns) is in the
\* list, and a raw metric referencing a column name outside the list is rejected
\* with ValidationError.
C2_ColumnsInKnownList ==
    (op = "parse_metric_spec" /\ columns # PNone) =>
        /\ out.t = "MetricSpec" => \A c \in SpecColumns(out) : InList(c, columns)
        /\ (/\ raw.t = "dict"
            /\ \E c \in RawRefs(raw) :
                   c.t = "str" /\ ~InList(PStr(Strip(c.s)), columns))
               => out = ValidationError

\* C2 witness: an otherwise valid metric on the unknown column z is rejected.
C2_Witness ==
    /\ op = "parse_metric_spec"
    /\ columns = KnownColumns
    /\ raw.t = "dict"
    /\ Get(raw, Lit.name, PNone) = PStr(<<"T">>)
    /\ RawOperation(raw) = Lit.sum
    /\ Get(raw, Lit.column, PNone) = PStr(<<"z">>)
    /\ Lit.where \notin DOMAIN raw.f
    /\ out = ValidationError

\* the raw metrics that validate, in input order
RECURSIVE ValidatedOf(_, _)
ValidatedOf(raws, cols) ==
    IF raws = <<>> THEN <<>>
    ELSE LET m == parse_metric_spec(Head(raws), cols)
         IN (IF IsRaise(m) THEN <<>> ELSE <<m>>) \o ValidatedOf(Tail(raws), cols)

\* C5: every plan parse_query_plan returns has 1 to 6 metrics: the first 6 raw
\* entries are tried, those that validate are kept in input order, and when none
\* validates the list is the single metric "Record Count" / count / no column.
C5_OneToSixMetrics ==
    (op = "parse_query_plan" /\ out.t = "CopilotQueryPlan") =>
        LET raws == Get(raw, Lit.metrics, PList(<<>>)).items
            firstSix == [i \in 1..(IF Len(raws) < 6 THEN Len(raws) ELSE 6) |-> raws[i]]
            kept == ValidatedOf(firstSix, columns)
            metrics == out.metrics.items
        IN /\ Len(metrics) >= 1
           /\ Len(metrics) <= 6
           /\ kept # <<>> => metrics = kept
           /\ kept = <<>> =>
                  /\ Len(metrics) = 1
                  /\ metrics[1].name = PStr(Lit.RecordCount)
                  /\ metrics[1].operation = PStr(Lit.count)
                  /\ metrics[1].column = PNone

\* C5 witness: seven raw metrics, the seventh valid, give a plan of six.
C5_Witness ==
    /\ op = "parse_query_plan"
    /\ out.t = "CopilotQueryPlan"
    /\ Len(Get(raw, Lit.metrics, PList(<<>>)).items) = 7
    /\ \A i \in 1..7 : ~IsRaise(parse_metric_spec(raw.f[Lit.metrics].items[i], columns))
    /\ Len(out.metrics.items) = 6

\* the clauses of a raw filter list that validate, normalized, in input order
RECURSIVE ValidClausesOf(_, _)
ValidClausesOf(items, cols) ==
    IF items = <<>> THEN <<>>
    ELSE LET c == normalize_item(Head(items), cols)
         IN (IF IsRaise(c) THEN <<>> ELSE <<c>>) \o ValidClausesOf(Tail(items), cols)

\* C6: an invalid plan-level filter clause never fails the plan: for an object
\* payload with a metrics list and a filters list holding a clause that fails
\* validation, parse_query_plan returns a plan whose filters are the valid
\* clauses, the invalid ones dropped.
C6_InvalidFilterDropped ==
    (/\ op = "parse_query_plan"
     /\ raw.t = "dict"
     /\ Get(raw, Lit.metrics, PList(<<>>)).t = "list"
     /\ Get(raw, Lit.filters, PNone).t = "list"
     /\ \E i \in DOMAIN raw.f[Lit.filters].items :
            IsRaise(normalize_item(raw.f[Lit.filters].items[i], columns)))
        => /\ out.t = "CopilotQueryPlan"
           /\ out.filters = PList(ValidClausesOf(raw.f[Lit.filters].items, columns))

\* a where item that is an object with a valid column and an op outside the enum
BadOpItem(item, cols) ==
    /\ item.t = "dict"
    /\ ~IsRaise(_validate_column(Get(item, Lit.column, PNone), cols))
    /\ Lower(Strip(ToStr(Get(item, Lit.op, PStr(Lit.eq))))) \notin EightFilterOps

\* the raw metric with the items of its where list that BadOpItem holds of removed
WithoutBadOpItems(r, cols) ==
    PDict([r.f EXCEPT ![Lit.where] =
              PList(SelectSeq(r.f[Lit.where].items, LAMBDA it : ~BadOpItem(it, cols)))])

\* C7: a where item with a valid column and an op outside the 8-op enum is dropped
\* and the metric is still returned with its remaining clauses: the raw metric
\* parses to what it parses to without that item.
C7_BadOpClauseDropped ==
    (/\ op = "parse_metric_spec"
     /\ raw.t = "dict"
     /\ Get(raw, Lit.where, PNone).t = "list"
     /\ \E i \in DOMAIN raw.f[Lit.where].items :
            BadOpItem(raw.f[Lit.where].items[i], columns))
        => out = parse_metric_spec(WithoutBadOpItems(raw, columns), columns)

\* C8: a returned MetricSpec carries a numerator and a denominator exactly when
\* its operation is ratio or pct, each with one of the seven base operations;
\* under any other operation both are None, whatever the raw input supplied.
C8_OperandsIffRatioOrPct ==
    (op = "parse_metric_spec" /\ out.t = "MetricSpec") =>
        IF out.operation.s \in {Lit.ratio, Lit.pct}
        THEN /\ out.numerator.t = "dict"
             /\ out.denominator.t = "dict"
             /\ out.numerator.f[Lit.operation].s \in SevenBaseOperations
             /\ out.denominator.f[Lit.operation].s \in SevenBaseOperations
        ELSE /\ out.numerator = PNone
             /\ out.denominator = PNone

\* C8 witness: a metric of operation max that supplies both operands is returned
\* without them.
C8_Witness ==
    /\ op = "parse_metric_spec"
    /\ out.t = "MetricSpec"
    /\ out.operation = PStr(Lit.max)
    /\ Get(raw, Lit.numerator, PNone).t = "dict"
    /\ Get(raw, Lit.denominator, PNone).t = "dict"
    /\ out.numerator = PNone
    /\ out.denominator = PNone

\* the characters claim C9 lists: letters, digits, whitespace and - ( ) % . / :
ListedColumnChars == Letters \cup Digits \cup Whitespace
                         \cup {"-", "(", ")", "%", ".", "/", ":"}

\* every character of the trimmed name of the str value c is in chars
NameWithin(c, chars) ==
    LET name == Strip(c.s) IN \A i \in DOMAIN name : name[i] \in chars

\* Column validation accepts only names within chars, for metric columns,
\* where-clause columns and dimensions: what the parser returns holds only such
\* names, and parse_metric_spec raises on a raw metric that references another.
OnlyNamesWithin(chars) ==
    /\ (op = "parse_metric_spec" /\ out.t = "MetricSpec")
           => \A c \in SpecColumns(out) : NameWithin(c, chars)
    /\ (/\ op = "parse_metric_spec"
        /\ raw.t = "dict"
        /\ \E c \in RawRefs(raw) : c.t = "str" /\ ~NameWithin(c, chars))
           => out = ValidationError
    /\ (op = "parse_query_plan" /\ out.t = "CopilotQueryPlan")
           => /\ \A i \in DOMAIN out.dimensions.items :
                      NameWithin(out.dimensions.items[i], chars)
              /\ \A i \in DOMAIN out.metrics.items :
                      \A c \in SpecColumns(out.metrics.items[i]) : NameWithin(c, chars)
              /\ \A c \in ClauseColumns(out.filters) : NameWithin(c, chars)
    /\ (/\ op = "parse_query_plan"
        /\ out.t = "CopilotQueryPlan"
        /\ Get(raw, Lit.dimensions, PNone).t = "list")
           => \A i \in DOMAIN raw.f[Lit.dimensions].items :
                  LET d == raw.f[Lit.dimensions].items[i]
                  IN (d.t = "str" /\ ~NameWithin(d, chars))
                         => ~InList(PStr(Strip(d.s)), out.dimensions)

\* C9 as claimed: a column name is accepted only if every character of the
\* trimmed name is a letter, a digit, whitespace or one of - ( ) % . / : ; a name
\* with any other character, an underscore included, is rejected.
C9_OnlyListedChars == OnlyNamesWithin(ListedColumnChars)

\* C9 as amended: a column name is accepted only if every character of the
\* trimmed name is a letter, a digit, the underscore, whitespace or one of
\* - ( ) % . / : ; a name with any other character (a quote, a semicolon) is
\* rejected, for metric columns, where-clause columns and dimensions alike.
C9_OnlyWordAndListedChars == OnlyNamesWithin(ListedColumnChars \cup {"_"})

\* C9 witness: an otherwise valid metric on the column a;b is rejected.
C9_Witness ==
    /\ op = "parse_metric_spec"
    /\ columns = PNone
    /\ raw.t = "dict"
    /\ Get(raw, Lit.name, PNone) = PStr(<<"T">>)
    /\ RawOperation(raw) = Lit.sum
    /\ Get(raw, Lit.column, PNone) = PStr(<<"a", ";", "b">>)
    /\ Lit.where \notin DOMAIN raw.f
    /\ out = ValidationError

\* the raw value is a string that names one of the allowed words, whatever
\* its case and the whitespace around it
NamesOneOf(value, allowed) == value.t = "str" /\ Lower(Strip(value.s)) \in allowed

\* the first raw metrics, up to the cap, that validate, in input order
RECURSIVE RawsKept(_, _)
RawsKept(raws, cols) ==
    IF raws = <<>> THEN <<>>
    ELSE (IF IsRaise(parse_metric_spec(Head(raws), cols)) THEN <<>> ELSE <<Head(raws)>>)
            \o RawsKept(Tail(raws), cols)

\* the format of each metric of the plan is a format hint, and is auto when the
\* raw metric it came from names no format hint
FormatsInSchema(metrics, kept) ==
    /\ \A i \in DOMAIN metrics : metrics[i].format.s \in ALLOWED_FORMATS
    /\ kept # <<>> =>
           \A i \in DOMAIN kept :
               ~NamesOneOf(Get(kept[i], Lit.format, PStr(Lit.auto)), ALLOWED_FORMATS)
                   => metrics[i].format = PStr(Lit.auto)

\* at most two dimensions, each the stripped text of one of the first two raw
\* entries, made of the characters of a column name and in the known list
DimensionsInSchema(dimensions, raws, cols) ==
    /\ Len(dimensions) <= 2
    /\ \A k \in DOMAIN dimensions :
           /\ \E i \in DOMAIN raws :
                  i <= 2 /\ raws[i].t = "str" /\ dimensions[k] = PStr(Strip(raws[i].s))
           /\ dimensions[k].s # <<>>
           /\ Range(dimensions[k].s) \subseteq ColumnChars
           /\ cols # PNone => InList(dimensions[k], cols)

\* the payload without its dimensions
WithoutDimensions(payload) ==
    IF payload.t = "dict"
    THEN PDict([k \in DOMAIN payload.f \ {Lit.dimensions} |-> payload.f[k]])
    ELSE payload

RawDimensions(payload) ==
    IF Get(payload, Lit.dimensions, PNone).t = "list" THEN payload.f[Lit.dimensions].items
    ELSE <<>>

\* C21: every plan parse_query_plan returns has an intent among the 6 intents
\* (summary when the input names none of them), a chart_type among the 5 chart
\* types (table when the input names none of them), metrics whose format is
\* among the 6 format hints (auto when the input names none of them) and at
\* most 2 dimensions, each of which passed column validation; an invalid
\* dimension entry is dropped and never makes the call raise.
C21_PlanInClosedSchema ==
    op = "parse_query_plan" =>
        /\ IsRaise(out) <=> IsRaise(parse_query_plan(WithoutDimensions(raw), columns))
        /\ out.t = "CopilotQueryPlan" =>
               /\ out.intent.s \in ALLOWED_INTENTS
               /\ ~NamesOneOf(Get(raw, Lit.intent, PStr(Lit.summary)), ALLOWED_INTENTS)
                      => out.intent = PStr(Lit.summary)
               /\ out.chart_type.s \in ALLOWED_CHART_TYPES
               /\ ~NamesOneOf(Get(raw, Lit.chart_type, PStr(Lit.table)), ALLOWED_CHART_TYPES)
                      => out.chart_type = PStr(Lit.table)
               /\ FormatsInSchema(out.metrics.items,
                                  RawsKept(Take(Get(raw, Lit.metrics, PList(<<>>)).items,
                                                MetricsCap), columns))
               /\ DimensionsInSchema(out.dimensions.items, RawDimensions(raw), columns)

---------------------------------------------------------------------------
(* Properties of the evaluator *)

\* the raw object that carries the fields of the MetricSpec m
AsRaw(m) ==
    PDict((Lit.name :> m.name) @@ (Lit.operation :> m.operation)
            @@ (Lit.column :> m.column) @@ (Lit.where :> m.where)
            @@ (Lit.numerator :> m.numerator) @@ (Lit.denominator :> m.denominator)
            @@ (Lit.format :> m.format) @@ (Lit.help_text :> m.help_text))

\* m is a MetricSpec that parse_metric_spec returns for some raw object
ParserReturns(m) == parse_metric_spec(AsRaw(m), PNone) = m

IsNumberOrNaN(v) == v.t \in {"float", "nan"}

\* v coerces to a number: an int, or a str of decimal digits
IsNumeric(v) == v.t = "int" \/ (v.t = "str" /\ v.s # <<>> /\ Range(v.s) \subseteq Digits)

\* the number a numeric value coerces to
NumberOf(v) == IF v.t = "int" THEN v.n ELSE DigitsValue(v.s)

\* C3: for every MetricSpec that parse_metric_spec can return and every
\* dataset, evaluate_metric returns a finite number or the NaN sentinel and
\* never raises.
C3_EvaluateMetricTotal ==
    (op = "evaluate_metric" /\ ParserReturns(spec)) => IsNumberOrNaN(out)

\* C4: for a ratio or pct metric whose denominator operand evaluates to 0 or
\* to NaN over the filtered rows (a missing denominator operand included),
\* evaluate_metric returns the NaN sentinel and does not raise.
C4_ZeroOrNaNDenominatorGivesNaN ==
    (op = "evaluate_metric" /\ spec.operation.s \in {Lit.ratio, Lit.pct})
        => LET scoped == apply_where_filters(df, spec.where)
           IN ~IsRaise(scoped)
                => LET den == _evaluate_operand(scoped, spec.denominator)
                   IN (~IsRaise(den) /\ (IsZero(den) \/ IsNaN(den))) => out = NaN

NumericAggregates == {Lit.sum, Lit.mean, Lit.median, Lit.min, Lit.max}

\* the frame has the column and no row of it holds a cell that is a number
NoUsableValue(frame, column) ==
    /\ column.t = "str"
    /\ column.s \in Range(frame.columns)
    /\ \A i \in DOMAIN frame.rows : ~IsNumeric(frame.rows[i][column.s])

\* C15: evaluate_metric with sum, mean, median, min or max over a column that
\* after the metric's filters has no usable value (every cell null or not a
\* number, or no row) returns NaN and does not raise.
C15_NoUsableValueGivesNaN ==
    (op = "evaluate_metric" /\ spec.operation.s \in NumericAggregates)
        => LET scoped == apply_where_filters(df, spec.where)
           IN (~IsRaise(scoped) /\ NoUsableValue(scoped, spec.column)) => out = NaN

---------------------------------------------------------------------------
(* Properties of the JSON extraction *)

\* c is prose after the object: something other than whitespace, and no JSON
IsCommentary(c) == Strip(c) # <<>> /\ IsRaise(json_loads(c))

\* the part of s after its first n characters
After(s, n) == SubSeq(s, n + 1, Len(s))

\* C10: for text that is a complete JSON object immediately followed by
\* non-JSON commentary, _extract_json_object returns that object, and it is the
\* parse of a candidate that starts at the first "{" and ends at or before the
\* last "}".
C10_LeadingObjectRecovered ==
    op = "_extract_json_object"
        => \A o \in JsonObjects :
              (startswith(text, o.text) /\ IsCommentary(After(text, Len(o.text))))
                 => /\ out = o.value
                    /\ LET cleaned == Strip(text)
                       IN \E idx \in (find(cleaned, "{") + 1)..rfind(cleaned, "}") :
                             out = json_loads(SubSeq(cleaned, find(cleaned, "{"), idx))

C10_Witness ==
    /\ op = "_extract_json_object"

    /\ text = <<"{", "\"", "a", "\"", ":", "1", "}", " ", "-", "-", " ", "d", "o", "n", "e">>
    /\ out = PDict((<<"a">> :> PInt(1)))

\* the text holds a "{" before a "}"
HasBracePair(s) == find(s, "{") # 0 /\ find(s, "{") < rfind(s, "}")

\* a substring from the first "{" to at most the last "}" parses to an object
SomeCandidateParses(s) ==
    \E idx \in (find(s, "{") + 1)..rfind(s, "}") :
        json_loads(SubSeq(s, find(s, "{"), idx)).t = "dict"

\* C11: parse_query_plan_text raises ValidationError when the text holds no
\* "{" ... "}" pair or no candidate from the first "{" parses to an object,
\* and in every other case returns a plan.
C11_RaisesOnlyWithoutJsonObject ==
    op = "parse_query_plan_text"
        => IF HasBracePair(text) /\ SomeCandidateParses(text)
           THEN out.t = "CopilotQueryPlan"
           ELSE out = ValidationError

---------------------------------------------------------------------------
(* Properties of the filter engine *)

\* the dataset of the one row r of the frame
OneRow(frame, r) == [frame EXCEPT !.rows = <<r>>]

\* row r of the frame satisfies the clause: the clause, applied alone to the
\* row, returns it
Satisfies(frame, r, flt) ==
    LET one == apply_where_filters(OneRow(frame, r), PList(<<flt>>))
    IN ~IsRaise(one) /\ one.rows # <<>>

\* the rows of the frame that satisfy every clause, in their order
SatisfyingRows(frame, where) ==
    SelectSeq(frame.rows, LAMBDA r : \A i \in DOMAIN where : Satisfies(frame, r, where[i]))

\* C12: apply_where_filters returns the dataset of exactly the rows, in their
\* original order, that satisfy every clause of the list; a clause on a column
\* the dataset lacks and a clause with an unrecognised op remove no row, and
\* the empty list returns all rows.
C12_ConjunctionInOrder ==
    op = "apply_where_filters"
        => /\ out = [df EXCEPT !.rows = SatisfyingRows(df, raw.items)]
           /\ (\A i \in DOMAIN raw.items :
                  \/ Get(raw.items[i], Lit.column, PNone).s \notin Range(df.columns)
                  \/ Get(raw.items[i], Lit.op, PNone).s \notin ALLOWED_FILTER_OPS)
                => out = df

ComparisonOps == {Lit.gt, Lit.gte, Lit.lt, Lit.lte}

\* the cell and the value are both numbers and the comparison holds of them
Compares(fop, cell, val) ==
    /\ IsNumeric(cell)
    /\ IsNumeric(val)
    /\ CASE fop = Lit.gt -> NumberOf(cell) > NumberOf(val)
         [] fop = Lit.gte -> NumberOf(cell) >= NumberOf(val)
         [] fop = Lit.lt -> NumberOf(cell) < NumberOf(val)
         [] fop = Lit.lte -> NumberOf(cell) <= NumberOf(val)

\* every clause of the list is a comparison on a column of the frame
AllComparisons(frame, where) ==
    /\ where # <<>>
    /\ \A i \in DOMAIN where :
          /\ where[i].f[Lit.op].s \in ComparisonOps
          /\ where[i].f[Lit.column].s \in Range(frame.columns)

\* C13: for clauses of gt, gte, lt and lte, apply_where_filters does not raise
\* and keeps exactly the rows whose cell and clause value both coerce to
\* numbers that compare as the operator says; a non-numeric clause value
\* leaves zero rows and a non-numeric cell drops its row.
C13_ComparisonsCoerceAndNeverRaise ==
    (op = "apply_where_filters" /\ AllComparisons(df, raw.items))
        => /\ out.t = "DataFrame"
           /\ out.rows = SelectSeq(df.rows, LAMBDA r :
                             \A i \in DOMAIN raw.items :
                                 Compares(raw.items[i].f[Lit.op].s,
                                          r[raw.items[i].f[Lit.column].s],
                                          raw.items[i].f[Lit.value]))
           /\ (\E i \in DOMAIN raw.items : ~IsNumeric(raw.items[i].f[Lit.value]))
                => out.rows = <<>>

\* a dataset with a numeric cell of x, filtered by x gte "thirty": no row left
C13_Witness ==
    /\ op = "apply_where_filters"
    /\ raw = PList(<<FilterClause(<<"x">>, Lit.gte, PStr(<<"t", "h", "i", "r", "t", "y">>))>>)
    /\ \E i \in DOMAIN df.rows : IsNumeric(df.rows[i][<<"x">>])
    /\ out.t = "DataFrame"
    /\ out.rows = <<>>

\* needle in hay, as plain strings
IsSubstring(needle, hay) ==
    \E i \in 0..(Len(hay) - Len(needle)) : SubSeq(hay, i + 1, i + Len(needle)) = needle

\* the where list is one contains clause on a column of the frame
OneContains(frame, where) ==
    /\ Len(where) = 1
    /\ where[1].f[Lit.op] = PStr(Lit.contains)
    /\ where[1].f[Lit.column].s \in Range(frame.columns)

\* the needle of a contains clause: "" for a null value
NeedleOf(flt) == IF flt.f[Lit.value] = PNone THEN <<>> ELSE ToStr(flt.f[Lit.value])

\* C14: a contains clause keeps exactly the rows whose cell, as a lower-cased
\* string with null as "", holds the lower-cased needle as a plain substring,
\* whatever characters the needle has; a null needle keeps every row.
C14_ContainsIsLiteralSubstring ==
    (op = "apply_where_filters" /\ OneContains(df, raw.items))
        => LET flt == raw.items[1]
               col == flt.f[Lit.column].s
           IN /\ out.t = "DataFrame"
              /\ out.rows = SelectSeq(df.rows, LAMBDA r :
                                IsSubstring(Lower(NeedleOf(flt)),
                                            Lower(CellStr(r[col], df.dtypes[col]))))
              /\ flt.f[Lit.value] = PNone => out = df

---------------------------------------------------------------------------
(* Properties of the formatter *)

\* C16: format_metric_value returns "N/A" for a NaN or missing value under
\* every format hint, an unrecognised one included, and returns something
\* other than "N/A" for every finite value.
C16_NAIffNaNOrMissing ==
    op = "format_metric_value"
        => (out = PStr(Lit.NA) <=> (raw = PNone \/ raw = NaN))

\* NaN under the currency hint
C16_Witness ==
    /\ op = "format_metric_value"
    /\ raw = NaN
    /\ text = Lit.currency
    /\ out = PStr(<<"N", "/", "A">>)

---------------------------------------------------------------------------
(* Properties of the aggregates *)

\* the cells of a column
CellsOf(rows, column) == [i \in DOMAIN rows |-> rows[i][column.s]]

\* the numbers among the cells, in their order
NumbersOf(cells) ==
    LET usable == SelectSeq(cells, IsNumeric)
    IN [i \in DOMAIN usable |-> NumberOf(usable[i])]

RECURSIVE Total(_)
Total(ns) == IF ns = <<>> THEN 0 ELSE Head(ns) + Total(Tail(ns))

\* the middle of the sorted numbers: the middle one, or half the sum of the
\* two middle ones
Middle(sorted) ==
    IF Len(sorted) % 2 = 1 THEN Float(sorted[(Len(sorted) + 1) \div 2], 1)
    ELSE Float(sorted[Len(sorted) \div 2] + sorted[Len(sorted) \div 2 + 1], 2)

\* the reference aggregate of a column over rows; ns are the numbers of the
\* column
ReferenceAggregate(operation, rows, column, ns) ==
    CASE operation = Lit.count ->
             IF column = PNone THEN Float(Len(rows), 1)
             ELSE Float(Cardinality({i \in DOMAIN rows : rows[i][column.s] # PNone}), 1)
      [] operation = Lit.nunique ->
             Float(Cardinality(Range(CellsOf(rows, column)) \ {PNone}), 1)
      [] operation = Lit.sum -> Float(Total(ns), 1)
      [] operation = Lit.mean -> Float(Total(ns), Len(ns))
      [] operation = Lit.median -> Middle(SortSeq(ns, LAMBDA a, b : a < b))
      [] operation = Lit.min ->
             Float(CHOOSE v \in Range(ns) : \A w \in Range(ns) : v <= w, 1)
      [] operation = Lit.max ->
             Float(CHOOSE v \in Range(ns) : \A w \in Range(ns) : v >= w, 1)

\* the aggregate is defined: count of no column or of a column of the frame,
\* nunique of a column of the frame, and sum, mean, median, min and max of a
\* column of the frame with a number among the rows
HasReference(operation, frame, rows, column) ==
    IF column = PNone THEN operation = Lit.count
    ELSE /\ column.s \in Range(frame.columns)
         /\ operation \in NumericAggregates
               => NumbersOf(CellsOf(rows, column)) # <<>>

\* the reference value of a base aggregate over the rows of the frame that
\* pass the where clauses
ReferenceValue(operation, frame, rows, column) ==
    ReferenceAggregate(operation, rows, column,
                       IF column = PNone THEN <<>> ELSE NumbersOf(CellsOf(rows, column)))

\* C17: for a base-aggregate metric, evaluate_metric equals the reference
\* aggregate over the rows passing the metric's where clauses: count is the
\* number of rows with no column and of non-null cells with one; sum, mean,
\* median, min and max are over the non-null values that are numbers;
\* nunique is the number of distinct non-null values.
C17_BaseAggregateIsReference ==
    (/\ op = "evaluate_metric"
     /\ spec.operation.s \in ALLOWED_BASE_OPERATIONS
     /\ HasReference(spec.operation.s, df, SatisfyingRows(df, spec.where.items), spec.column))
        => out = ReferenceValue(spec.operation.s, df,
                                SatisfyingRows(df, spec.where.items), spec.column)

\* the rows of the frame, among rows, that pass the operand's own where clauses
OperandRows(frame, rows, operand) ==
    SatisfyingRows([frame EXCEPT !.rows = rows], operand.f[Lit.where].items)

\* the operand is a base aggregate with a reference value over its rows
OperandHasReference(frame, rows, operand) ==
    /\ operand.t = "dict"
    /\ HasReference(operand.f[Lit.operation].s, frame,
                    OperandRows(frame, rows, operand), operand.f[Lit.column])

\* the reference value of the operand: its base aggregate over the rows that
\* pass its own where clauses
OperandValue(frame, rows, operand) ==
    ReferenceValue(operand.f[Lit.operation].s, frame,
                   OperandRows(frame, rows, operand), operand.f[Lit.column])

\* numerator / denominator, times 100 for pct
Quotient(operation, num, den) ==
    IF operation = Lit.pct THEN Float(100 * num.n * den.d, num.d * den.n)
    ELSE Float(num.n * den.d, num.d * den.n)

\* C18: for a ratio or pct metric whose denominator is neither zero nor NaN,
\* evaluate_metric returns numerator / denominator (times 100 for pct), each
\* operand being its base aggregate over the rows that pass its own where
\* clauses, whatever the where clauses of the other operand.
C18_RatioOfIndependentOperands ==
    (/\ op = "evaluate_metric"
     /\ spec.operation.s \in {Lit.ratio, Lit.pct}
     /\ OperandHasReference(df, SatisfyingRows(df, spec.where.items), spec.numerator)
     /\ OperandHasReference(df, SatisfyingRows(df, spec.where.items), spec.denominator)
     /\ ~IsZero(OperandValue(df, SatisfyingRows(df, spec.where.items), spec.denominator)))
        => out = Quotient(spec.operation.s,
                          OperandValue(df, SatisfyingRows(df, spec.where.items), spec.numerator),
                          OperandValue(df, SatisfyingRows(df, spec.where.items), spec.denominator))

---------------------------------------------------------------------------
(* Properties of the core's effect on its inputs *)

\* every evaluate_metric of one MetricSpec made so far gave the same result
SameResultAgain == \A a, b \in raw : a[1] = b[1] => a[2] = b[2]

\* C19: No call of apply_where_filters, evaluate_metric, evaluate_kpi_specs,
\* build_metric_evidence or execute_query_plan, after any sequence of such
\* calls, changes the rows, order or values of the caller's dataset or changes
\* the plan and its MetricSpecs, and evaluating a MetricSpec again gives what
\* it gave before.
C19_InputsNeverMutated == [][df' = df /\ spec' = spec /\ SameResultAgain']_vars

\* a filter call has handed back fewer rows than the dataset holds, after an
\* evaluation of a metric
C19_Witness ==
    /\ op = "apply_where_filters"
    /\ out.t = "DataFrame"
    /\ out.rows # <<>>
    /\ Len(out.rows) < Len(df.rows)
    /\ raw # {}

---------------------------------------------------------------------------
(* Properties of the display pipeline *)

\* the format a metric is to be displayed with: percent for a pct metric of
\* format auto, its own format for a pct metric of another format and for every
\* other metric
ExpectedFormat(m) ==
    CASE m.operation.s = Lit.pct /\ m.format.s = Lit.auto -> PStr(Lit.percent)
      [] m.operation.s = Lit.pct /\ m.format.s # Lit.auto -> m.format
      [] m.operation.s # Lit.pct -> m.format

\* the specs the call displays: the first max_items for evaluate_kpi_specs
ShownSpecs == IF op = "evaluate_kpi_specs" THEN Take(spec, raw.n) ELSE spec

\* the value texts of the rows returned
DisplayedValues(result) ==
    IF op = "evaluate_kpi_specs" THEN [i \in DOMAIN result.items |-> result.items[i].items[2]]
    ELSE [i \in DOMAIN result.rows |-> result.rows[i][Lit.value]]

EndsWithPercent(v) == v.s # <<>> /\ v.s[Len(v.s)] = "%"

\* C20: evaluate_kpi_specs and build_metric_evidence display each metric as
\* format_metric_value gives its value under the percent format when the
\* metric is pct with format auto, and under the metric's own format when it
\* is pct with another format or not pct; a raise of evaluate_metric ends the
\* call.
C20_PctAutoDisplaysAsPercent ==
    op \in {"evaluate_kpi_specs", "build_metric_evidence"}
        => IF \E i \in DOMAIN ShownSpecs : IsRaise(evaluate_metric(df, ShownSpecs[i]))
           THEN IsRaise(out)
           ELSE /\ DisplayedValues(out)
                     = [i \in DOMAIN ShownSpecs |->
                           format_metric_value(evaluate_metric(df, ShownSpecs[i]),
                                               ExpectedFormat(ShownSpecs[i]))]
                /\ \A i \in DOMAIN ShownSpecs :
                      (/\ ShownSpecs[i].operation.s = Lit.pct
                       /\ ShownSpecs[i].format.s = Lit.auto
                       /\ DisplayedValues(out)[i] # PStr(Lit.NA))
                          => EndsWithPercent(DisplayedValues(out)[i])

\* the test dataset, where 3 of 4 rows have x > 1: the pct metric of format
\* auto shows as "75.00%", in a tile and in the evidence table
C20_Witness ==
    /\ op \in {"evaluate_kpi_specs", "build_metric_evidence"}
    /\ df = TestDf
    /\ Len(spec) = 2
    /\ spec[1].operation.s = Lit.pct
    /\ spec[1].format.s = Lit.auto
    /\ spec[2].operation.s = Lit.ratio
    /\ ~IsRaise(out)
    /\ DisplayedValues(out)[1] = PStr(<<"7", "5", ".", "0", "0", "%">>)

-----------------------------------------------------------------------------
(* briefing/generator.py *)

\* the em dash, U+2014, written as a token like the grave accent
EmDash == "U+2014"

\* insights/decision_cards.py, the DecisionCard dataclass
DecisionCard(title, metric_delta, impact_estimate, why, evidence) ==
    [t |-> "DecisionCard", title |-> title, metric_delta |-> metric_delta, impact_estimate |-> impact_estimate, rationale |-> why, evidence |-> evidence]

BoardBrief(generated_at, summary, kpis, decisions, risks, assumptions, actions, provenance) ==
    [t |-> "BoardBrief", generated_at |-> generated_at, summary |-> summary, kpis |-> kpis, decisions |-> decisions, risks |-> risks, assumptions |-> assumptions, actions |-> actions, provenance |-> provenance]

\* format(n, ","), n an int
Thousands(n) == IF n < 0 THEN <<"-">> \o Grouped(DigitsOf(-n)) ELSE Grouped(DigitsOf(n))

\* sep.join(items)
RECURSIVE join_with(_, _)
join_with(sep, items) ==
    IF items = <<>> THEN <<>>
    ELSE IF Len(items) = 1 THEN items[1]
    ELSE items[1] \o sep \o join_with(sep, Tail(items))

\* needle in hay
contains(hay, needle) ==
    \E i \in 1..(Len(hay) - Len(needle) + 1) :
        hay[i] = needle[1] /\ SubSeq(hay, i, i + Len(needle) - 1) = needle

\* lines 33-36
summary_of(filtered_rows, total_rows, n_columns) ==
    Concat(<<<<"F", "i", "l", "t", "e", "r", "e", "d", " ", "s", "c", "o", "p", "e", " ",
               "i", "n", "c", "l", "u", "d", "e", "s", " ">>,
             Thousands(filtered_rows), <<" ", "o", "f", " ">>, Thousands(total_rows),
             <<" ", "r", "o", "w", "s", " ", "a", "c", "r", "o", "s", "s", " ">>, ToStr(PInt(n_columns)),
             <<" ", "c", "o", "l", "u", "m", "n", "s", ".", " ">>,
             <<"P", "r", "i", "m", "a", "r", "y", " ", "o", "p", "p", "o", "r", "t", "u",
               "n", "i", "t", "i", "e", "s", " ", "a", "n", "d", " ", "r", "i", "s", "k",
               "s", " ", "a", "r", "e", " ", "e", "v", "i", "d", "e", "n", "c", "e", "-",
               "b", "a", "c", "k", "e", "d", " ", "a", "n", "d", " ", "a", "c", "t", "i",
               "o", "n", "-", "o", "r", "i", "e", "n", "t", "e", "d", " ", "f", "o", "r",
               " ", "l", "e", "a", "d", "e", "r", "s", "h", "i", "p", " ", "r", "e", "v",
               "i", "e", "w", ".">>>>)

RiskTags ==
    <<<<"m", "i", "s", "s", "i", "n", "g">>, <<"o", "u", "t", "l", "i", "e", "r">>, <<"r", "i", "s", "k">>, <<"w", "a", "r", "n", "i", "n", "g">>>>

NoRiskSignal ==
    <<"N", "o", " ", "e", "x", "p", "l", "i", "c", "i", "t", " ", "r", "i", "s",
      "k", " ", "s", "i", "g", "n", "a", "l", " ", "d", "e", "t", "e", "c", "t",
      "e", "d", " ", "i", "n", " ", "c", "u", "r", "r", "e", "n", "t", " ", "f",
      "i", "l", "t", "e", "r", "s", ".">>

RisksMax == 3
FallbackRisksMax == 2

\* line 38 without its slice: every tagged insight is a risk
all_tagged(insights) ==
    LET tagged == SelectSeq(insights, LAMBDA ins : \E k \in DOMAIN RiskTags : contains(Lower(ins), RiskTags[k]))
    IN IF tagged # <<>> THEN tagged
       ELSE IF insights # <<>> THEN Take(insights, FallbackRisksMax)
       ELSE <<NoRiskSignal>>

\* lines 38-40
risks_of(insights) ==
    LET tagged == Take(SelectSeq(insights, LAMBDA ins : \E k \in DOMAIN RiskTags : contains(Lower(ins), RiskTags[k])), RisksMax)
    IN IF tagged # <<>> THEN tagged
       ELSE IF insights # <<>> THEN Take(insights, FallbackRisksMax)
       ELSE <<NoRiskSignal>>

FixedAssumptions ==
    <<<<"A", "l", "l", " ", "c", "o", "n", "c", "l", "u", "s", "i", "o", "n", "s",
        " ", "a", "r", "e", " ", "b", "a", "s", "e", "d", " ", "o", "n", " ", "t",
        "h", "e", " ", "c", "u", "r", "r", "e", "n", "t", "l", "y", " ", "f", "i",
        "l", "t", "e", "r", "e", "d", " ", "d", "a", "t", "a", "s", "e", "t", " ",
        "s", "n", "a", "p", "s", "h", "o", "t", ".">>,
      <<"A", "I", " ", "r", "e", "c", "o", "m", "m", "e", "n", "d", "a", "t", "i",
        "o", "n", "s", " ", "a", "s", "s", "u", "m", "e", " ", "m", "e", "t", "r",
        "i", "c", " ", "d", "e", "f", "i", "n", "i", "t", "i", "o", "n", "s", " ",
        "a", "r", "e", " ", "s", "e", "m", "a", "n", "t", "i", "c", "a", "l", "l",
        "y", " ", "c", "o", "r", "r", "e", "c", "t", " ", "f", "o", "r", " ", "u",
        "p", "l", "o", "a", "d", "e", "d", " ", "c", "o", "l", "u", "m", "n", "s",
        ".">>>>

\* lines 42-48
assumptions_of(source_info) ==
    LET limitation == Strip(ToStr(Get(source_info, <<"l", "i", "m", "i", "t", "a", "t", "i", "o", "n", "s">>, PStr(<<>>))))
    IN IF limitation # <<>>
       THEN Append(FixedAssumptions, <<"S", "o", "u", "r", "c", "e", " ", "l", "i", "m", "i", "t", "a", "t", "i",
                                       "o", "n", " ", "n", "o", "t", "e", "d", ":", " ">> \o limitation)
       ELSE FixedAssumptions

\* lines 50-54
Actions ==
    <<<<"D", "a", "y", " ", "1", "-", "2", ":", " ", "V", "a", "l", "i", "d", "a",
        "t", "e", " ", "t", "o", "p", " ", "o", "p", "p", "o", "r", "t", "u", "n",
        "i", "t", "y", " ", "s", "e", "g", "m", "e", "n", "t", " ", "w", "i", "t",
        "h", " ", "d", "o", "m", "a", "i", "n", " ", "o", "w", "n", "e", "r", " ",
        "a", "n", "d", " ", "l", "o", "c", "k", " ", "t", "a", "r", "g", "e", "t",
        " ", "m", "e", "t", "r", "i", "c", ".">>,
      <<"D", "a", "y", " ", "3", "-", "4", ":", " ", "L", "a", "u", "n", "c", "h",
        " ", "f", "o", "c", "u", "s", "e", "d", " ", "i", "n", "t", "e", "r", "v",
        "e", "n", "t", "i", "o", "n", " ", "o", "n", " ", "t", "o", "p", " ", "r",
        "i", "s", "k", " ", "s", "e", "g", "m", "e", "n", "t", " ", "a", "n", "d",
        " ", "m", "o", "n", "i", "t", "o", "r", " ", "K", "P", "I", " ", "d", "r",
        "i", "f", "t", " ", "d", "a", "i", "l", "y", ".">>,
      <<"D", "a", "y", " ", "5", "-", "7", ":", " ", "R", "e", "v", "i", "e", "w",
        " ", "o", "u", "t", "c", "o", "m", "e", "s", ",", " ", "d", "o", "c", "u",
        "m", "e", "n", "t", " ", "w", "i", "n", "s", ",", " ", "a", "n", "d", " ",
        "a", "d", "j", "u", "s", "t", " ", "f", "i", "l", "t", "e", "r", "s", "/",
        "t", "h", "r", "e", "s", "h", "o", "l", "d", "s", " ", "f", "o", "r", " ",
        "n", "e", "x", "t", " ", "c", "y", "c", "l", "e", ".">>>>

DecisionsMax == 3
AssumptionsMax == 3

\* lines 22-73; now is datetime.now().isoformat(timespec="seconds")
build_board_brief(total_rows, filtered_rows, n_columns, kpis, decision_cards, insights, filters, source_info, now) ==
    BoardBrief(now,
               summary_of(filtered_rows, total_rows, n_columns),
               kpis,
               Take(decision_cards, DecisionsMax),
               risks_of(insights),
               Take(assumptions_of(source_info), AssumptionsMax),
               Actions,
               [total_rows |-> total_rows, filtered_rows |-> filtered_rows, columns |-> n_columns, filters |-> filters, source |-> source_info])

\* line 77: one KPI line
kpi_line(kpi) ==
    Concat(<<<<"-", " ", "*", "*">>, kpi[1], <<"*", "*", ":", " ">>, kpi[2], <<" ", EmDash, " ">>, kpi[3]>>)

\* lines 80-84: the lines of one decision card
card_lines(card) ==
    Concat(<<<<"#", "#", "#", " ">>, card.title, <<"\n">>,
             <<"-", " ", "M", "e", "t", "r", "i", "c", " ", "d", "e", "l", "t", "a", ":",
               " ">>, card.metric_delta, <<"\n">>,
             <<"-", " ", "E", "x", "p", "e", "c", "t", "e", "d", " ", "i", "m", "p", "a",
               "c", "t", ":", " ">>, card.impact_estimate, <<"\n">>,
             <<"-", " ", "R", "a", "t", "i", "o", "n", "a", "l", "e", ":", " ">>, card.rationale, <<"\n">>,
             <<"-", " ", "E", "v", "i", "d", "e", "n", "c", "e", ":", " ">>, card.evidence>>)

\* lines 88-90: "- item" lines
bullet_lines(items) == join([i \in DOMAIN items |-> <<"-", " ">> \o items[i]])

\* x or default, for strings
or_text(x, default) == IF x # <<>> THEN x ELSE default

\* lines 76-117
board_brief_to_markdown(brief) ==
    LET kpi_lines == join([i \in DOMAIN brief.kpis |-> kpi_line(brief.kpis[i])])
        decision_lines == join([i \in DOMAIN brief.decisions |-> card_lines(brief.decisions[i])])
        filters_text == IF brief.provenance.filters # <<>>
                        THEN join_with(<<",", " ">>, brief.provenance.filters)
                        ELSE <<"N", "o", " ", "a", "c", "t", "i", "v", "e", " ", "f", "i", "l", "t", "e",
                               "r", "s">>
    IN Concat(<<<<"#", " ", "B", "o", "a", "r", "d", " ", "B", "r", "i", "e", "f", "\n",
                  "\n">>,
                <<"G", "e", "n", "e", "r", "a", "t", "e", "d", " ", "a", "t", ":", " ">>, brief.generated_at, <<"\n", "\n">>,
                <<"#", "#", " ", "E", "x", "e", "c", "u", "t", "i", "v", "e", " ", "S", "u",
                  "m", "m", "a", "r", "y", "\n">>,
                brief.summary, <<"\n", "\n">>,
                <<"#", "#", " ", "K", "P", "I", " ", "S", "n", "a", "p", "s", "h", "o", "t",
                  "\n">>,
                or_text(kpi_lines, <<"-", " ", "N", "o", " ", "K", "P", "I", " ", "d", "a", "t", "a", " ", "a",
                                     "v", "a", "i", "l", "a", "b", "l", "e">>), <<"\n", "\n">>,
                <<"#", "#", " ", "D", "e", "c", "i", "s", "i", "o", "n", "s", " ", "W", "i",
                  "t", "h", " ", "E", "v", "i", "d", "e", "n", "c", "e", "\n">>,
                or_text(decision_lines, <<"N", "o", " ", "d", "e", "c", "i", "s", "i", "o", "n", " ", "c", "a", "r",
                                          "d", "s", " ", "a", "v", "a", "i", "l", "a", "b", "l", "e", ".">>), <<"\n", "\n">>,
                <<"#", "#", " ", "R", "i", "s", "k", "s", " ", "a", "n", "d", " ", "A", "s",
                  "s", "u", "m", "p", "t", "i", "o", "n", "s", "\n">>,
                <<"#", "#", "#", " ", "R", "i", "s", "k", "s", "\n">>,
                bullet_lines(brief.risks), <<"\n", "\n">>,
                <<"#", "#", "#", " ", "A", "s", "s", "u", "m", "p", "t", "i", "o", "n", "s",
                  "\n">>,
                bullet_lines(brief.assumptions), <<"\n", "\n">>,
                <<"#", "#", " ", "7", "-", "D", "a", "y", " ", "A", "c", "t", "i", "o", "n",
                  " ", "P", "l", "a", "n", "\n">>,
                bullet_lines(brief.actions), <<"\n", "\n">>,
                <<"#", "#", " ", "P", "r", "o", "v", "e", "n", "a", "n", "c", "e", "\n">>,
                <<"-", " ", "T", "o", "t", "a", "l", " ", "r", "o", "w", "s", ":", " ">>, Thousands(brief.provenance.total_rows), <<"\n">>,
                <<"-", " ", "F", "i", "l", "t", "e", "r", "e", "d", " ", "r", "o", "w", "s",
                  ":", " ">>, Thousands(brief.provenance.filtered_rows), <<"\n">>,
                <<"-", " ", "C", "o", "l", "u", "m", "n", "s", ":", " ">>, ToStr(PInt(brief.provenance.columns)), <<"\n">>,
                <<"-", " ", "A", "c", "t", "i", "v", "e", " ", "f", "i", "l", "t", "e", "r",
                  "s", ":", " ">>, filters_text, <<"\n">>,
                <<"-", " ", "S", "o", "u", "r", "c", "e", " ", "s", "y", "s", "t", "e", "m",
                  ":", " ">>, ToStr(Get(brief.provenance.source, <<"s", "o", "u", "r", "c", "e", "_", "s", "y", "s", "t", "e", "m">>, PStr(<<>>))), <<"\n">>>>)

\* the pieces lo..hi of a sequence of strings, as one string
RECURSIVE Flatten(_, _, _)
Flatten(pieces, lo, hi) ==
    IF lo > hi THEN <<>>
    ELSE IF lo = hi THEN pieces[lo]
    ELSE Flatten(pieces, lo, (lo + hi) \div 2) \o Flatten(pieces, ((lo + hi) \div 2) + 1, hi)

\* str.replace of one character
replace(s, old, new) ==
    Flatten([i \in DOMAIN s |-> IF s[i] = old THEN new ELSE <<s[i]>>], 1, Len(s))

\* line 122
html_body(md) ==
    replace(replace(replace(replace(md, "&", <<"&", "a", "m", "p", ";">>), "<", <<"&", "l", "t", ";">>), ">", <<"&", "g", "t", ";">>), "\n", <<"<", "b", "r", ">">>)

\* lines 120-132
board_brief_to_html(brief) ==
    Concat(<<<<"<", "!", "d", "o", "c", "t", "y", "p", "e", " ", "h", "t", "m", "l", ">">>,
             <<"<", "h", "t", "m", "l", ">", "<", "h", "e", "a", "d", ">", "<", "m", "e",
               "t", "a", " ", "c", "h", "a", "r", "s", "e", "t", "=", "'", "u", "t", "f",
               "-", "8", "'", ">">>,
             <<"<", "t", "i", "t", "l", "e", ">", "B", "o", "a", "r", "d", " ", "B", "r",
               "i", "e", "f", "<", "/", "t", "i", "t", "l", "e", ">">>,
             <<"<", "s", "t", "y", "l", "e", ">", "b", "o", "d", "y", "{", "f", "o", "n",
               "t", "-", "f", "a", "m", "i", "l", "y", ":", "I", "n", "t", "e", "r", ",",
               "A", "r", "i", "a", "l", ",", "s", "a", "n", "s", "-", "s", "e", "r", "i",
               "f", ";", "m", "a", "r", "g", "i", "n", ":", "2", "8", "p", "x", ";", "l",
               "i", "n", "e", "-", "h", "e", "i", "g", "h", "t", ":", "1", ".", "5", ";",
               "c", "o", "l", "o", "r", ":", "#", "0", "f", "1", "7", "2", "a", ";", "}">>,
             <<"h", "1", ",", "h", "2", ",", "h", "3", "{", "c", "o", "l", "o", "r", ":",
               "#", "1", "d", "4", "e", "d", "8", ";", "}">>,
             <<"<", "/", "s", "t", "y", "l", "e", ">", "<", "/", "h", "e", "a", "d", ">",
               "<", "b", "o", "d", "y", ">">>,
             html_body(board_brief_to_markdown(brief)),
             <<"<", "/", "b", "o", "d", "y", ">", "<", "/", "h", "t", "m", "l", ">">>>>)

-----------------------------------------------------------------------------
(* The calls of the briefing functions: build_board_brief on a dashboard's
   KPI tiles, decision cards, insights, filters and source description, then
   the two renderings of the brief it returned *)

MaxInsights == 4
MaxCards == 4
MaxKpis == 1

\* an insight that carries a risk tag in capitals, and one that carries none
\* and holds the characters the HTML rendering escapes
TaggedInsight ==
    <<"M", "o", "s", "t", " ", "M", "i", "s", "s", "i", "n", "g", " ", "f", "i",
      "e", "l", "d", " ", "i", "s", " ", "r", "e", "g", "i", "o", "n", ".">>
PlainInsight ==
    <<"M", "a", "r", "g", "i", "n", " ", "<", " ", "5", "%", " ", "&", " ", "f",
      "a", "l", "l", "i", "n", "g">>

\* the lists of insights: all tagged, none tagged, and every other one tagged
InsightLists ==
    {[i \in 1..n |-> IF i % 2 < tagged THEN TaggedInsight ELSE PlainInsight] :
        n \in 0..MaxInsights, tagged \in 0..2}

\* the i-th KPI tile (label, value, help text); the first one is labelled with
\* the text of a section heading
Kpi(i) ==
    IF i = 1
    THEN <<<<"#", "#", " ", "7", "-", "D", "a", "y", " ", "A", "c", "t", "i", "o", "n",
             " ", "P", "l", "a", "n">>, <<"1", ",", "2", "3", "4">>, <<"S", "u", "m", " ", "o", "f", " ", "<", "s", "a", "l", "e", "s", ">">>>>
    ELSE <<<<"R", "o", "w", "s", " ">> \o DigitsOf(i), DigitsOf(i), <<"R", "o", "w", " ", "c", "o", "u", "n", "t">>>>

KpiLists == {[i \in 1..n |-> Kpi(i)] : n \in 0..MaxKpis}

\* the i-th decision card
Card(i) ==
    DecisionCard(<<"C", "a", "r", "d", " ">> \o DigitsOf(i), <<"+", "1", "2", "%">>, <<"$", "1", ",", "0", "0", "0">>, <<"T", "o", "p", " ", "s", "e", "g", "m", "e", "n", "t">>, <<"n", "=">> \o DigitsOf(i))

CardLists == {[i \in 1..n |-> Card(i)] : n \in {0, 1, MaxCards}}

\* row counts, column count, filters and source description of a dashboard
Scope(total_rows, filtered_rows, n_columns, filters, source_info) ==
    [total_rows |-> total_rows, filtered_rows |-> filtered_rows, columns |-> n_columns, filters |-> filters, source_info |-> source_info]

Scopes ==
    {Scope(0, 0, 0, <<>>, PDict(<<>>)),
     Scope(1234567, 1000, 12, <<<<"r", "e", "g", "i", "o", "n", "=", "E", "a", "s", "t">>>>,
           PDict((<<"l", "i", "m", "i", "t", "a", "t", "i", "o", "n", "s">> :> PStr(<<" ", " ">>)) @@ (<<"s", "o", "u", "r", "c", "e", "_", "s", "y", "s", "t", "e", "m">> :> PStr(<<"C", "S", "V", " ", "u", "p", "l", "o", "a", "d">>)))),
     Scope(1000, 250, 3, <<<<"r", "e", "g", "i", "o", "n", "=", "E", "a", "s", "t">>, <<"y", "e", "a", "r", ">", "2", "0", "2", "0">>>>,
           PDict((<<"l", "i", "m", "i", "t", "a", "t", "i", "o", "n", "s">> :> PStr(<<"s", "a", "m", "p", "l", "e", "d">>)))),
     Scope(40, 40, 2, <<>>, PDict((<<"l", "i", "m", "i", "t", "a", "t", "i", "o", "n", "s">> :> PNone) @@ (<<"s", "o", "u", "r", "c", "e", "_", "s", "y", "s", "t", "e", "m">> :> PNone)))}

\* the values datetime.now() takes
Clock ==
    {<<"2", "0", "2", "6", "-", "1", "1", "-", "0", "2", "T", "0", "9", ":", "3",
       "0", ":", "0", "0">>,
     <<"2", "0", "2", "6", "-", "1", "1", "-", "0", "2", "T", "0", "9", ":", "3",
       "0", ":", "0", "1">>}

BriefInputs ==
    {[kpis |-> k, decision_cards |-> c, insights |-> i, scope |-> s] :
        k \in KpiLists, c \in CardLists, i \in InsightLists, s \in Scopes}

InitBrief ==
    /\ raw \in BriefInputs
    /\ columns = <<>>
    /\ text = <<>>
    /\ df = PNone
    /\ spec = PNone
    /\ op = "init"
    /\ out = PNone

CallBuildBoardBrief ==
    /\ op = "init"
    /\ \E now \in Clock :
          spec' = build_board_brief(raw.scope.total_rows, raw.scope.filtered_rows, raw.scope.columns,
                                    raw.kpis, raw.decision_cards, raw.insights,
                                    raw.scope.filters, raw.scope.source_info, now)
    /\ out' = spec'
    /\ op' = "build_board_brief"
    /\ UNCHANGED <<raw, columns, text, df>>

CallBoardBriefToMarkdown ==
    /\ spec # PNone
    /\ out' = PStr(board_brief_to_markdown(spec))
    /\ op' = "board_brief_to_markdown"
    /\ UNCHANGED <<raw, columns, text, df, spec>>

CallBoardBriefToHtml ==
    /\ spec # PNone
    /\ out' = PStr(board_brief_to_html(spec))
    /\ op' = "board_brief_to_html"
    /\ UNCHANGED <<raw, columns, text, df, spec>>

NextBrief == CallBuildBoardBrief \/ CallBoardBriefToMarkdown \/ CallBoardBriefToHtml

SpecBrief == InitBrief /\ [][NextBrief]_vars

-----------------------------------------------------------------------------
(* Properties of the board brief *)

\* the section headings the brief's Markdown is read for, in order
SectionHeadings ==
    <<<<"#", "#", " ", "E", "x", "e", "c", "u", "t", "i", "v", "e", " ", "S", "u",
        "m", "m", "a", "r", "y">>,
      <<"#", "#", " ", "K", "P", "I", " ", "S", "n", "a", "p", "s", "h", "o", "t">>,
      <<"#", "#", " ", "D", "e", "c", "i", "s", "i", "o", "n", "s", " ", "W", "i",
        "t", "h", " ", "E", "v", "i", "d", "e", "n", "c", "e">>,
      <<"#", "#", " ", "R", "i", "s", "k", "s", " ", "a", "n", "d", " ", "A", "s",
        "s", "u", "m", "p", "t", "i", "o", "n", "s">>,
      <<"#", "#", " ", "7", "-", "D", "a", "y", " ", "A", "c", "t", "i", "o", "n",
        " ", "P", "l", "a", "n">>>>

\* needles occur in hay one after the other, from position from on
RECURSIVE InOrder(_, _, _)
InOrder(needles, hay, from) ==
    IF needles = <<>> THEN TRUE
    ELSE LET at == {i \in from..(Len(hay) - Len(needles[1]) + 1) :
                       hay[i] = needles[1][1] /\ SubSeq(hay, i, i + Len(needles[1]) - 1) = needles[1]}
         IN at # {} /\ InOrder(Tail(needles), hay, (CHOOSE i \in at : \A j \in at : i <= j) + Len(needles[1]))

\* C22: every brief build_board_brief returns holds at most 3 decisions,
\* between 1 and 3 risks and at most 3 assumptions; its Markdown contains the
\* headings Executive Summary, KPI Snapshot, Decisions With Evidence, Risks
\* and Assumptions and 7-Day Action Plan one after the other in that order;
\* its HTML contains "Board Brief". Empty kpis, cards, insights and filters
\* included.
C22_BriefSectionsAndLimits ==
    /\ spec # PNone =>
          /\ Len(spec.decisions) <= 3
          /\ Len(spec.risks) \in 1..3
          /\ Len(spec.assumptions) <= 3
    /\ op = "build_board_brief" => out = spec
    /\ op = "board_brief_to_markdown" => InOrder(SectionHeadings, out.s, 1)
    /\ op = "board_brief_to_html" => contains(out.s, <<"B", "o", "a", "r", "d", " ", "B", "r", "i", "e", "f">>)

\* the brief of a dashboard with no KPI tile, no decision card, no insight and
\* no filter, rendered as Markdown
C22_Witness ==
    /\ op = "board_brief_to_markdown"
    /\ raw.kpis = <<>>
    /\ raw.decision_cards = <<>>
    /\ raw.insights = <<>>
    /\ raw.scope.filters = <<>>
    /\ spec.risks = <<NoRiskSignal>>
    /\ InOrder(SectionHeadings, out.s, 1)

-----------------------------------------------------------------------------
(* Properties of the filter engine on null cells *)

\* the operators whose match expression is unknown on a null cell
NullUnknownOps == {Lit.eq, Lit.neq, Lit.gt, Lit.gte, Lit.lt, Lit.lte, Lit.in}

\* the clause is one of these operators on a column of the frame, with a
\* value that is not null
ComparesWithValue(frame, flt) ==
    /\ Get(flt, Lit.column, PNone).t = "str"
    /\ Get(flt, Lit.column, PNone).s \in Range(frame.columns)
    /\ Get(flt, Lit.op, PStr(Lit.eq)).s \in NullUnknownOps
    /\ Get(flt, Lit.value, PNone) # PNone

\* C23: a row whose cell in the column of a clause is null is not in the
\* result of apply_where_filters, for each clause of the operators eq, neq,
\* gt, gte, lt, lte and in whose value is not null.
C23_NullCellsExcluded ==
    (op = "apply_where_filters" /\ ~IsRaise(out)) =>
        \A k \in DOMAIN raw.items :
            ComparesWithValue(df, raw.items[k]) =>
                \A i \in DOMAIN out.rows :
                    out.rows[i][raw.items[k].f[Lit.column].s] # PNone

-----------------------------------------------------------------------------
(* Properties of the plan executor *)

\* the rows of the frame that satisfy every plan filter and every where clause
\* of metric m
ScopedRows(frame, filters, m) == SatisfyingRows(frame, filters \o m.where.items)

\* the value of metric m aggregated over those rows
ScopedValue(frame, filters, m) ==
    metric_value([frame EXCEPT !.rows = ScopedRows(frame, filters, m)], m)

\* the evidence table of the plan: one row per metric of the plan, in plan
\* order, each with the value of its metric alone
ScopedTable(frame, plan) ==
    evidence_frame(rows_or_raise([i \in DOMAIN plan.metrics.items |->
                                     evidence_row(plan.metrics.items[i],
                                                  ScopedValue(frame, plan.filters.items,
                                                              plan.metrics.items[i]))]))

\* the answer shows the table: its headline is the first row, its first bullets
\* are the rows, and its evidence is the table when it charts no dimension
ShowsTable(answer, table) ==
    /\ answer.headline = PStr(headline_of(table))
    /\ \A i \in DOMAIN metric_bullets(table) :
          /\ i \in DOMAIN answer.bullets.items
          /\ answer.bullets.items[i] = PStr(metric_bullets(table)[i])
    /\ answer.chart_spec = table_chart => answer.evidence_df = table

\* C24: execute_query_plan computes each metric of the plan over exactly the
\* rows that satisfy every plan filter and the metric's own where clauses, so
\* that no metric's where clauses touch another metric's value, and its
\* evidence table of the metrics has one row per metric in plan order.
C24_MetricsScopedByPlanThenOwnWhere ==
    op = "execute_query_plan" =>
        /\ ~IsRaise(out)
        /\ ShowsTable(out, ScopedTable(df, spec))

=============================================================================
